---- MODULE Spec2Model ----
(***************************************************************************)
(* Model of the query interpretation and retrieval filtering engine of     *)
(* ml_models/app/routes/chatbot.py: the SimpleRAGChat class (the last      *)
(* definition of each method is the one Python keeps) and the /chat,       *)
(* /data, /process-jira-data and /clear-embeddings routes.                 *)
(*                                                                         *)
(* Text is modelled by TLA+ strings, computed character by character the   *)
(* way the Python string methods compute it.                               *)
(***************************************************************************)
EXTENDS Integers, Sequences, FiniteSets, TLC

(***************************************************************************)
(* Bounds of the model.                                                    *)
(***************************************************************************)
\* The largest number of documents the collection holds.
MaxDocs == 2

\* The most documents of a collection on which a method is called directly
MaxRecords == 3

(***************************************************************************)
(* Python string and list primitives.                                      *)
(***************************************************************************)
UpperCase == "ABCDEFGHIJKLMNOPQRSTUVWXYZ"
LowerCase == "abcdefghijklmnopqrstuvwxyz"
Digits == "0123456789"

CharAt(s, i) == SubSeq(s, i, i)

Rest(s) == SubSeq(s, 2, Len(s))

\* c in s, for a one-character string c
IsCharOf(c, s) == \E i \in 1..Len(s) : CharAt(s, i) = c

LowerChar(c) ==
    IF IsCharOf(c, UpperCase)
    THEN CharAt(LowerCase, CHOOSE i \in 1..Len(UpperCase) : CharAt(UpperCase, i) = c)
    ELSE c

RECURSIVE LowerRange(_, _, _)
\* The characters lo..hi of s, lowercased (halving keeps the recursion shallow)
LowerRange(s, lo, hi) ==
    IF lo > hi THEN ""
    ELSE IF lo = hi THEN LowerChar(CharAt(s, lo))
    ELSE LET mid == (lo + hi) \div 2
         IN LowerRange(s, lo, mid) \o LowerRange(s, mid + 1, hi)

\* str.lower()
Lower(s) == LowerRange(s, 1, Len(s))

\* needle in hay (substring test)
Contains(needle, hay) ==
    \E i \in 1..(Len(hay) - Len(needle) + 1) : SubSeq(hay, i, i + Len(needle) - 1) = needle

StartsWith(s, prefix) == Len(prefix) <= Len(s) /\ SubSeq(s, 1, Len(prefix)) = prefix

IsSpace(c) == c = " " \/ c = "\n" \/ c = "\t" \/ c = "\r"

RECURSIVE Replace(_, _, _)
\* str.replace(old, new), old not empty
Replace(s, old, new) ==
    IF s = "" THEN ""
    ELSE IF StartsWith(s, old) THEN new \o Replace(SubSeq(s, Len(old) + 1, Len(s)), old, new)
    ELSE CharAt(s, 1) \o Replace(Rest(s), old, new)

RECURSIVE LStrip(_)
LStrip(s) == IF s # "" /\ IsSpace(CharAt(s, 1)) THEN LStrip(Rest(s)) ELSE s

RECURSIVE RStrip(_)
RStrip(s) ==
    IF s # "" /\ IsSpace(CharAt(s, Len(s))) THEN RStrip(SubSeq(s, 1, Len(s) - 1)) ELSE s

\* str.strip()
Strip(s) == RStrip(LStrip(s))

RECURSIVE SplitWs(_, _)
\* str.split(): the maximal runs of non-whitespace characters; cur is the run being read
SplitWs(s, cur) ==
    IF s = "" THEN (IF cur = "" THEN <<>> ELSE <<cur>>)
    ELSE IF IsSpace(CharAt(s, 1))
         THEN (IF cur = "" THEN <<>> ELSE <<cur>>) \o SplitWs(Rest(s), "")
         ELSE SplitWs(Rest(s), cur \o CharAt(s, 1))

Split(s) == SplitWs(s, "")

RECURSIVE SplitOn(_, _, _)
\* str.split(sep), sep not empty; cur is the piece being read
SplitOn(s, sep, cur) ==
    IF s = "" THEN <<cur>>
    ELSE IF StartsWith(s, sep)
         THEN <<cur>> \o SplitOn(SubSeq(s, Len(sep) + 1, Len(s)), sep, "")
         ELSE SplitOn(Rest(s), sep, cur \o CharAt(s, 1))

RECURSIVE Join(_, _)
\* sep.join(parts)
Join(parts, sep) ==
    IF parts = <<>> THEN ""
    ELSE IF Len(parts) = 1 THEN parts[1]
    ELSE parts[1] \o sep \o Join(Tail(parts), sep)

\* x in list
InList(x, list) == \E i \in 1..Len(list) : list[i] = x

Range(list) == {list[i] : i \in 1..Len(list)}

RECURSIVE Reverse(_)
Reverse(list) == IF list = <<>> THEN <<>> ELSE Reverse(Tail(list)) \o <<Head(list)>>

RECURSIVE Flatten(_)
Flatten(lists) == IF lists = <<>> THEN <<>> ELSE Head(lists) \o Flatten(Tail(lists))

(***************************************************************************)
(* The JIRA items a client can send, and the document process_jira_data    *)
(* makes of one.                                                           *)
(***************************************************************************)
JiraItems ==
    { [issueKey |-> "T1", summary |-> "Login fails", status |-> "Done", priority |-> "High",
       assignee |-> "alice", issueType |-> "Bug", projectId |-> "Alpha", sprintId |-> "Sprint-1"],
      [issueKey |-> "T2", summary |-> "Add export", status |-> "In Progress", priority |-> "Low",
       assignee |-> "bob", issueType |-> "Story", projectId |-> "Alpha", sprintId |-> "Sprint-1"],
      [issueKey |-> "T3", summary |-> "Crash on save", status |-> "Done", priority |-> "High",
       assignee |-> "alice", issueType |-> "Bug", projectId |-> "Beta", sprintId |-> "Sprint-2"] }

\* clean_text, on a string
clean_text(text) ==
    Replace(Replace(Replace(Strip(text), "\n", " "), "\r", " "), "\t", " ")

\* The document of one item: the page content and the metadata.  The fields a
\* client leaves out take the defaults of item.get.
MakeDocument(item) ==
    LET issue_key == clean_text(item.issueKey)
        summary == clean_text(item.summary)
        description == clean_text("No Description")
        issue_type == clean_text(item.issueType)
        status == clean_text(item.status)
        priority == clean_text(item.priority)
        assignee == clean_text(item.assignee)
        reporter == clean_text("Unknown")
        resolution == clean_text("Unresolved")
        project_id == clean_text(item.projectId)
        sprint_id == clean_text(item.sprintId)
    IN [content |-> "Task ID: " \o issue_key \o "\nTitle: " \o summary
                    \o "\nDescription: " \o description \o "\nStatus: " \o status
                    \o "\nPriority: " \o priority \o "\nAssignee: " \o assignee
                    \o "\nReporter: " \o reporter \o "\nIssue Type: " \o issue_type
                    \o "\nResolution: " \o resolution \o "\nProject: " \o project_id
                    \o "\nSprint: " \o sprint_id,
        task_id |-> issue_key, status |-> status, priority |-> priority,
        assignee |-> assignee, issue_type |-> issue_type,
        project_id |-> project_id, sprint_id |-> sprint_id]

\* Every document the collection can hold
Documents == {MakeDocument(item) : item \in JiraItems}

\* The sequences of at most n elements of S
SeqsUpTo(S, n) == UNION {[1..k -> S] : k \in 0..n}

(***************************************************************************)
(* The vocabulary: _init_intelligent_corrections,                          *)
(* _ensure_vocabulary_initialized.                                         *)
(***************************************************************************)
\* The characters of the texts of the model, in code point order
Ascii == "\t\n\r !,-.0123456789:?ABCDEFGHIJKLMNOPQRSTUVWXYZ_abcdefghijklmnopqrstuvwxyz"

CharRank(c) == CHOOSE i \in 1..Len(Ascii) : CharAt(Ascii, i) = c

RECURSIVE StrLess(_, _)
\* a < b, the order of Python strings
StrLess(a, b) ==
    IF b = "" THEN FALSE
    ELSE IF a = "" THEN TRUE
    ELSE IF CharAt(a, 1) = CharAt(b, 1) THEN StrLess(Rest(a), Rest(b))
    ELSE CharRank(CharAt(a, 1)) < CharRank(CharAt(b, 1))

RECURSIVE Ascending(_)
Ascending(S) ==
    IF S = {} THEN <<>>
    ELSE LET least == CHOOSE x \in S : \A y \in S \ {x} : StrLess(x, y)
         IN <<least>> \o Ascending(S \ {least})

\* list(a_set): Python fixes no order for the elements of a set of strings (it
\* follows the hash seed of the process and the insertion history).  The model
\* takes two of the orders: ascending and descending.
SetToList(S, descending) == IF descending THEN Reverse(Ascending(S)) ELSE Ascending(S)

\* The value of the field in the first document alone
ValuesOfFirst(docs, field) ==
    {Lower(docs[i][field]) : i \in {j \in 1..Len(docs) : j = 1 /\ docs[j][field] # ""}}

\* The values of one metadata field over the documents: metadata.get(field)
\* truthy, lowercased
ValuesOf(docs, field) ==
    {Lower(docs[i][field]) : i \in {j \in 1..Len(docs) : docs[j][field] # ""}}

\* dynamic_vocabulary after the loop over all_docs['metadatas'] and the
\* conversion of the sets to lists
CollectVocabulary(docs, descending) ==
    [priority |-> SetToList(ValuesOf(docs, "priority"), descending),
     status |-> SetToList(ValuesOf(docs, "status"), descending),
     issue_type |-> SetToList(ValuesOf(docs, "issue_type"), descending),
     assignees |-> SetToList(ValuesOf(docs, "assignee"), descending),
     projects |-> SetToList(ValuesOf(docs, "project_id"), descending),
     sprints |-> SetToList(ValuesOf(docs, "sprint_id"), descending)]

\* dynamic_vocabulary as assigned before the loop: six empty sets
EmptyVocabulary ==
    [priority |-> <<>>, status |-> <<>>, issue_type |-> <<>>,
     assignees |-> <<>>, projects |-> <<>>, sprints |-> <<>>]

\* The categories in the order of the dict
Categories == <<"priority", "status", "issue_type", "assignees", "projects", "sprints">>

\* ''.join([w[0] for w in word.split()])
Initials(word) ==
    LET parts == Split(word)
    IN Join([i \in 1..Len(parts) |-> CharAt(parts[i], 1)], "")

\* What one word adds to known_words after the words of its category
Variations(word) ==
    IF Contains(" ", word)
    THEN <<Replace(word, " ", ""), Replace(word, " ", "-")>>
         \o (IF Len(Split(word)) <= 3 /\ Len(Initials(word)) > 1
             THEN <<Initials(word)>> ELSE <<>>)
    ELSE <<>>

ConnectorWords ==
    <<"show", "list", "display", "find", "search", "get", "retrieve",
      "all", "some", "many", "few", "none", "and", "or", "with",
      "assigned", "to", "in", "of", "the", "a", "an">>

\* known_words as built from a dynamic_vocabulary
BuildKnownWords(vocabulary) ==
    Flatten([c \in 1..Len(Categories) |->
                LET words == vocabulary[Categories[c]]
                IN words \o Flatten([i \in 1..Len(words) |-> Variations(words[i])])])
    \o ConnectorWords

\* The seed values _ensure_vocabulary_initialized gives an empty category
SeedValues(category) ==
    CASE category = "priority" -> <<"high", "medium", "low">>
      [] category = "status" -> <<"in progress", "done", "to do">>
      [] category = "issue_type" -> <<"bug", "story", "task">>
      [] OTHER -> <<>>

\* _ensure_vocabulary_initialized, called with dynamic_vocabulary set (a dict of
\* six keys is truthy, so it never builds again)
EnsureVocabularyInitialized(vocabulary, words) ==
    LET seeded == [c \in DOMAIN vocabulary |->
                      IF vocabulary[c] = <<>> THEN SeedValues(c) ELSE vocabulary[c]]
    IN [dynamic_vocabulary |-> seeded,
        known_words |-> IF words = <<>> THEN BuildKnownWords(seeded) ELSE words]

\* The except branch of _init_intelligent_corrections
FallbackVocabulary ==
    [dynamic_vocabulary |->
        [priority |-> <<"high", "medium", "low">>,
         status |-> <<"in progress", "done", "to do">>,
         issue_type |-> <<"bug", "story", "task">>,
         assignees |-> <<>>, projects |-> <<>>, sprints |-> <<>>],
     known_words |-> <<"high", "medium", "low", "bug", "story", "task">>]

\* _init_intelligent_corrections as a whole: the vocabulary and the known words
\* it leaves, given whether vectorstore.get() answered and the order of the lists
InitIntelligentCorrections(docs, getAnswers, descending) ==
    IF getAnswers
    THEN LET vocabulary == CollectVocabulary(docs, descending)
         IN EnsureVocabularyInitialized(vocabulary, BuildKnownWords(vocabulary))
    ELSE FallbackVocabulary

(***************************************************************************)
(* difflib.get_close_matches, as _find_best_dynamic_match uses it.         *)
(***************************************************************************)
\* The longest common block of a and b, as SequenceMatcher.find_longest_match
\* finds it (no junk: autojunk needs 200 elements): the longest, then the
\* earliest in a, then the earliest in b.  <<i, j, k>>: a[i..i+k-1] = b[j..j+k-1].
LongestMatch(a, b) ==
    LET shorter == IF Len(a) < Len(b) THEN Len(a) ELSE Len(b)
        Common(i, j, k) == SubSeq(a, i, i + k - 1) = SubSeq(b, j, j + k - 1)
        Sizes == {k \in 1..shorter :
                     \E i \in 1..(Len(a) - k + 1) : \E j \in 1..(Len(b) - k + 1) : Common(i, j, k)}
    IN IF Sizes = {} THEN <<1, 1, 0>>
       ELSE LET k == CHOOSE m \in Sizes : \A n \in Sizes : n <= m
                Starts == {i \in 1..(Len(a) - k + 1) :
                              \E j \in 1..(Len(b) - k + 1) : Common(i, j, k)}
                i == CHOOSE m \in Starts : \A n \in Starts : m <= n
                Ends == {j \in 1..(Len(b) - k + 1) : Common(i, j, k)}
                j == CHOOSE m \in Ends : \A n \in Ends : m <= n
            IN <<i, j, k>>

RECURSIVE MatchingCharacters(_, _)
\* The sum of the sizes of SequenceMatcher(a, b).get_matching_blocks()
MatchingCharacters(a, b) ==
    IF a = "" \/ b = "" THEN 0
    ELSE LET m == LongestMatch(a, b)
         IN IF m[3] = 0 THEN 0
            ELSE m[3]
                 + MatchingCharacters(SubSeq(a, 1, m[1] - 1), SubSeq(b, 1, m[2] - 1))
                 + MatchingCharacters(SubSeq(a, m[1] + m[3], Len(a)),
                                      SubSeq(b, m[2] + m[3], Len(b)))

\* ratio() >= cutoff, for ratio = 2.0 * matches / (len(a) + len(b)) and a cutoff
\* given in tenths
RatioAtLeast(matches, total, tenths) == total > 0 /\ 20 * matches >= tenths * total

\* (ratio1, x1) < (ratio2, x2), the order heapq.nlargest takes the largest of
ScoreLess(m1, t1, x1, m2, t2, x2) ==
    \/ m1 * t2 < m2 * t1
    \/ m1 * t2 = m2 * t1 /\ StrLess(x1, x2)

(***************************************************************************)
(* The requests a client can send.  An absent filter (None) and an empty   *)
(* one are the same to the code, which tests filters for truth: both are   *)
(* the empty string here.                                                  *)
(***************************************************************************)
NoFilter == ""

Messages == {"high bugs", "list all tasks", "show all tasks", "why bugs", "done"}

SprintFilters == {NoFilter, "sprint-1"}

ProjectFilters == {NoFilter, "ALPHA"}

(***************************************************************************)
(* The text normalizer: _sanitize_query and what it calls.                 *)
(***************************************************************************)
Chars(s) == [i \in 1..Len(s) |-> CharAt(s, i)]

\* re.sub(r'[^a-zA-Z0-9...]', '', s): the letters and digits of s, and those
\* of its characters that are in kept
Filter(s, kept) ==
    Join(SelectSeq(Chars(s), LAMBDA c :
             \/ IsCharOf(c, UpperCase) \/ IsCharOf(c, LowerCase)
             \/ IsCharOf(c, Digits) \/ IsCharOf(c, kept)), "")

\* \w of the regular expressions, on the characters of the model
IsWordChar(c) ==
    IsCharOf(c, UpperCase) \/ IsCharOf(c, LowerCase) \/ IsCharOf(c, Digits) \/ c = "_"

\* re.sub(r'[^\w\-]', '', word)
CleanWord(word) == Filter(word, "_-")

\* For each known word, the characters SequenceMatcher(None, known, word) matches
MatchScores(word, words) == [i \in 1..Len(words) |-> MatchingCharacters(words[i], word)]

\* get_close_matches(word, known_words, n=1, cutoff) with the scores of the
\* known words: the position of the match in known_words, 0 for no match.  Of
\* two equal words the position does not matter.
CloseMatch(word, words, scores, tenths) ==
    LET Close(i) == RatioAtLeast(scores[i], Len(words[i]) + Len(word), tenths)
        Beats(i, j) == \/ words[i] = words[j]
                       \/ ScoreLess(scores[j], Len(words[j]) + Len(word), words[j],
                                    scores[i], Len(words[i]) + Len(word), words[i])
    IN IF \E i \in 1..Len(words) : Close(i)
       THEN CHOOSE i \in 1..Len(words) :
                Close(i) /\ \A j \in 1..Len(words) : Close(j) => Beats(i, j)
       ELSE 0

\* The cutoffs 0.9, 0.8, 0.7, 0.6, in tenths
Cutoffs == <<9, 8, 7, 6>>

\* The loop over the cutoffs and the partial matching of
\* _find_best_dynamic_match
BestMatch(word, words, scores) ==
    LET hits == SelectSeq(Cutoffs, LAMBDA c : CloseMatch(word, words, scores, c) > 0)
        partial == SelectSeq(words, LAMBDA k :
                       Len(k) > 3 /\ Len(word) > 3
                       /\ (Contains(word, k) \/ Contains(k, word)))
    IN IF hits # <<>> THEN words[CloseMatch(word, words, scores, hits[1])]
       ELSE IF partial # <<>> THEN partial[1]
       ELSE word

\* _find_best_dynamic_match
FindBestDynamicMatch(word, words) ==
    IF Len(word) < 2 THEN word
    ELSE IF InList(word, words) THEN word
    ELSE BestMatch(word, words, MatchScores(word, words))

\* One word of _fuzzy_correct_text, with its best match
ReplaceWord(word, clean_word, best_match) ==
    IF best_match # "" /\ best_match # clean_word
    THEN Replace(word, clean_word, best_match)
    ELSE word

\* One word of _fuzzy_correct_text, cleaned of its punctuation
CorrectWord(word, clean_word, words) ==
    IF clean_word = "" THEN word
    ELSE ReplaceWord(word, clean_word, FindBestDynamicMatch(clean_word, words))

\* The words of _fuzzy_correct_text, corrected one by one
CorrectWords(parts, words) ==
    Join([i \in 1..Len(parts) |-> CorrectWord(parts[i], CleanWord(parts[i]), words)], " ")

\* _fuzzy_correct_text
FuzzyCorrectText(text, words) == CorrectWords(Split(text), words)

\* A word boundary (\b) between the characters i-1 and i of s
Boundary(s, i) ==
    LET before == i > 1 /\ IsWordChar(CharAt(s, i - 1))
        after == i <= Len(s) /\ IsWordChar(CharAt(s, i))
    IN before # after

RECURSIVE SkipSpaces(_, _)
\* The first position from i on that holds no whitespace
SkipSpaces(s, i) == IF i <= Len(s) /\ IsSpace(CharAt(s, i)) THEN SkipSpaces(s, i + 1) ELSE i

\* The length of the match at position i of s of one alternative between two \b:
\* alt.head, then whitespace if alt.gap, then alt.tail; 0 for no match.
\* ignoreCase is re.IGNORECASE.
MatchAt(s, i, alt, ignoreCase) ==
    LET Same(x, y) == IF ignoreCase THEN Lower(x) = Lower(y) ELSE x = y
        afterHead == i + Len(alt.head)
        tailAt == IF alt.gap THEN SkipSpaces(s, afterHead) ELSE afterHead
        end == tailAt + Len(alt.tail)
    IN IF /\ end - 1 <= Len(s)
          /\ Same(SubSeq(s, i, afterHead - 1), alt.head)
          /\ Same(SubSeq(s, tailAt, end - 1), alt.tail)
          /\ Boundary(s, i)
          /\ Boundary(s, end)
       THEN end - i
       ELSE 0

Literal(word) == [head |-> word, gap |-> FALSE, tail |-> ""]

Spaced(first, second) == [head |-> first, gap |-> TRUE, tail |-> second]

RECURSIVE SubAlternatives(_, _, _, _, _)
\* re.sub(r'\b(alt1|alt2|...)\b', expansion, s) from position i on
SubAlternatives(s, i, alts, expansion, ignoreCase) ==
    IF i > Len(s) THEN ""
    ELSE LET found == SelectSeq(alts, LAMBDA alt : MatchAt(s, i, alt, ignoreCase) > 0)
         IN IF found # <<>>
            THEN expansion \o SubAlternatives(s, i + MatchAt(s, i, found[1], ignoreCase),
                                              alts, expansion, ignoreCase)
            ELSE CharAt(s, i) \o SubAlternatives(s, i + 1, alts, expansion, ignoreCase)

\* The abbreviation patterns of _expand_dynamic_abbreviations, in the order of
\* the dict: a key set twice keeps its first place and takes the last value
AbbreviationPatterns(vocabulary) ==
    LET Abbreviated(words) ==
            LET multi == SelectSeq(words, LAMBDA w : Contains(" ", w) /\ Len(Initials(w)) > 1)
            IN [i \in 1..Len(multi) |-> <<Initials(multi[i]), multi[i]>>]
        Special(words) ==
            LET known == SelectSeq(words, LAMBDA w : Len(w) > 3 /\ w \in {"improvement", "story", "epic"})
            IN [i \in 1..Len(known) |->
                   <<CASE known[i] = "improvement" -> "imp"
                       [] known[i] = "story" -> "stry"
                       [] known[i] = "epic" -> "epc", known[i]>>]
        assigned == Abbreviated(vocabulary.priority) \o Abbreviated(vocabulary.status)
                    \o Special(vocabulary.issue_type)
        first == SelectSeq([i \in 1..Len(assigned) |-> i],
                           LAMBDA i : \A j \in 1..(i - 1) : assigned[j][1] # assigned[i][1])
        LastValue(key) ==
            assigned[CHOOSE i \in 1..Len(assigned) :
                        /\ assigned[i][1] = key
                        /\ \A j \in (i + 1)..Len(assigned) : assigned[j][1] # key][2]
    IN [n \in 1..Len(first) |->
           [alts |-> <<Literal(assigned[first[n]][1])>>,
            expansion |-> LastValue(assigned[first[n]][1])]]

RECURSIVE ApplyPatterns(_, _, _)
\* for pattern, expansion in patterns: text = re.sub(pattern, expansion, text)
ApplyPatterns(text, patterns, ignoreCase) ==
    IF patterns = <<>> THEN text
    ELSE ApplyPatterns(
             SubAlternatives(text, 1, Head(patterns).alts, Head(patterns).expansion, ignoreCase),
             Tail(patterns), ignoreCase)

\* _expand_dynamic_abbreviations
ExpandDynamicAbbreviations(text, vocabulary) ==
    ApplyPatterns(text, AbbreviationPatterns(vocabulary), TRUE)

RECURSIVE CollapsePunctuation(_)
\* re.sub(r'[.!?]+', '.', text)
CollapsePunctuation(text) ==
    IF text = "" THEN ""
    ELSE IF IsCharOf(CharAt(text, 1), ".!?")
         THEN IF Len(text) > 1 /\ IsCharOf(CharAt(text, 2), ".!?")
              THEN CollapsePunctuation(Rest(text))
              ELSE "." \o CollapsePunctuation(Rest(text))
         ELSE CharAt(text, 1) \o CollapsePunctuation(Rest(text))

RECURSIVE SpacePunctuation(_, _)
\* re.sub(r'\s*([,.!?])\s*', r'\1 ', text) from position i on
SpacePunctuation(text, i) ==
    IF i > Len(text) THEN ""
    ELSE LET j == SkipSpaces(text, i)
         IN IF j <= Len(text) /\ IsCharOf(CharAt(text, j), ",.!?")
            THEN CharAt(text, j) \o " " \o SpacePunctuation(text, SkipSpaces(text, j + 1))
            ELSE CharAt(text, i) \o SpacePunctuation(text, i + 1)

\* re.sub(r'\s+', ' ', text).strip()
NormalizeWhitespace(text) == Join(Split(text), " ")

\* The abbreviations _standardize_formatting writes out, in its order
FormattingPatterns ==
    LET Short(a, b) == <<Literal(a \o b), Literal(a \o "-" \o b), Spaced(a, b)>>
    IN << [alts |-> Short("h", "p"), expansion |-> "high priority"],
          [alts |-> Short("m", "p"), expansion |-> "medium priority"],
          [alts |-> Short("l", "p"), expansion |-> "low priority"],
          [alts |-> Short("c", "p"), expansion |-> "critical priority"],
          [alts |-> <<Literal("ip"), Literal("in-p"), Literal("inp")>>,
           expansion |-> "in progress"],
          [alts |-> <<Literal("td"), Literal("t-d")>>, expansion |-> "to do"],
          [alts |-> <<Literal("dn"), Literal("cmpl"), Literal("fin")>>,
           expansion |-> "done"] >>

\* _standardize_formatting: the punctuation collapsed and spaced, the spaces
\* before it removed, then the abbreviations written out
StandardizeFormatting(text) ==
    ApplyPatterns(
        Replace(Replace(Replace(SpacePunctuation(CollapsePunctuation(text), 1),
                                "  ", " "),
                        " ,", ","),
                " .", "."),
        FormattingPatterns, FALSE)

\* _intelligent_text_correction: lower and strip, fuzzy correction, expansion
\* of the abbreviations, formatting, whitespace
IntelligentTextCorrection(text, vocabulary, words) ==
    IF text = "" THEN text
    ELSE NormalizeWhitespace(
             StandardizeFormatting(
                 ExpandDynamicAbbreviations(
                     FuzzyCorrectText(Strip(Lower(text)), words),
                     vocabulary)))

\* _sanitize_query: the corrected query without the characters outside
\* [a-zA-Z0-9\s\-_.,!?], its whitespace normalized
SanitizeQuery(query, vocabulary, words) ==
    IF query = "" THEN query
    ELSE NormalizeWhitespace(
             Filter(IntelligentTextCorrection(query, vocabulary, words), " \n\t\r-_.,!?"))

(***************************************************************************)
(* Search criteria.  A value of a criteria dict is None, a string or a     *)
(* list of strings; the three are told apart by kind.                      *)
(***************************************************************************)
Null == [kind |-> "null", str |-> "", items |-> <<>>]

Str(s) == [kind |-> "str", str |-> s, items |-> <<>>]

List(xs) == [kind |-> "list", str |-> "", items |-> xs]

\* bool(value): None, '' and [] are false
Truthy(value) ==
    \/ value.kind = "str" /\ value.str # ""
    \/ value.kind = "list" /\ value.items # <<>>

\* any(needle in text for needle in needles)
AnyIn(needles, text) == \E i \in 1..Len(needles) : Contains(needles[i], text)

DoneSynonyms == <<"done", "completed", "finished", "complete", "fixed", "resolved">>

\* The loop "for value in values: if value in query or value.replace(' ', '')
\* in query: criteria[field] = value; break"
NamedValue(values, query) ==
    LET named == SelectSeq(values, LAMBDA v :
                     Contains(v, query) \/ Contains(Replace(v, " ", ""), query))
    IN IF named = <<>> THEN Null ELSE Str(named[1])

\* The status after the handling of the synonyms of "done"
DoneStatus(statuses, query, status) ==
    LET done == SelectSeq(statuses, LAMBDA s : AnyIn(DoneSynonyms, s))
    IN IF AnyIn(DoneSynonyms, query) /\ done # <<>> THEN Str(done[1]) ELSE status

\* The issue type after the handling of the plurals
PluralIssueType(issue_types, query, issue_type) ==
    IF Contains("bugs", query) /\ InList("bug", issue_types) THEN Str("bug")
    ELSE IF Contains("stories", query) /\ InList("story", issue_types) THEN Str("story")
    ELSE issue_type

AssigneePatterns == <<"with ", "assigned to ", "tasks assigned to ">>

\* The assignee: first the loop over the assignees, then the first of the
\* patterns "with [name]", "assigned to [name]" that the query contains.
\* parts[1].split()[0] raises IndexError when the text after the first
\* occurrence of the pattern is blank (a pattern repeated back to back); no
\* message of Messages contains a pattern, and potential_name stands as ""
\* for that case here.
NamedAssignee(assignees, query) ==
    LET named == SelectSeq(assignees, LAMBDA a : Contains(a, query))
        direct == IF named = <<>> THEN Null ELSE Str(named[1])
        found == SelectSeq(AssigneePatterns, LAMBDA pattern : Contains(pattern, query))
        parts == SplitOn(query, found[1], "")
        names == Split(parts[2])
        potential_name == IF names = <<>> THEN "" ELSE names[1]
        matching == SelectSeq(assignees, LAMBDA a :
                        Contains(potential_name, a) \/ Contains(a, potential_name))
    IN IF found # <<>> /\ matching # <<>> THEN Str(matching[1]) ELSE direct

FixedBugPhrases == <<"fixed bugs", "resolved bugs", "completed bugs">>

\* The status after the special handling of "fixed bugs"
FixedBugStatus(statuses, query, issue_type, status) ==
    LET done == SelectSeq(statuses, LAMBDA s : AnyIn(DoneSynonyms, s))
    IN IF /\ AnyIn(FixedBugPhrases, query)
          /\ issue_type = Str("bug")
          /\ ~Truthy(status)
          /\ done # <<>>
       THEN Str(done[1])
       ELSE status

\* The priority without the phrases that ask for every priority
NamedPriorityValue(priorities, query, phrases) == NamedValue(priorities, query)

\* The priority: a value the query names, or the whole list for a phrase that
\* names none
NamedPriority(priorities, query, phrases) ==
    IF AnyIn(phrases, query) THEN List(priorities) ELSE NamedValue(priorities, query)

\* The keywords of _extract_search_criteria_fast: the words of more than two
\* characters that are neither a value of the criteria nor a known word
Keywords(parts, criteria, words) ==
    SelectSeq([i \in 1..Len(parts) |-> Filter(parts[i], "_")], LAMBDA w :
        /\ Len(w) > 2
        /\ \A field \in {"assignee", "priority", "status", "issue_type"} :
               criteria[field] # Str(w)
        /\ ~InList(w, words))

\* The criteria dict of the extractors, with the status that the handling of
\* "fixed bugs" leaves
CriteriaFields(assignee, priority, status, issue_type, statuses, query) ==
    [kind |-> "object",
     assignee |-> assignee,
     priority |-> priority,
     status |-> FixedBugStatus(statuses, query, issue_type, status),
     issue_type |-> issue_type,
     keywords |-> <<>>]

\* The extraction the two extractors share: the lowercased query against the
\* vocabulary, with the phrases that ask for every priority
NamedCriteria(query, vocabulary, phrases) ==
    CriteriaFields(NamedAssignee(vocabulary.assignees, query),
                   NamedPriority(vocabulary.priority, query, phrases),
                   DoneStatus(vocabulary.status, query, NamedValue(vocabulary.status, query)),
                   PluralIssueType(vocabulary.issue_type, query,
                                   NamedValue(vocabulary.issue_type, query)),
                   vocabulary.status, query)

\* criteria['keywords'] of _extract_search_criteria_fast
WithKeywords(criteria, query, words) ==
    [criteria EXCEPT !.keywords = Keywords(Split(query), criteria, words)]

\* "if ' | query: ' in context_query: query = context_query.split(' | query: ')[-1]"
QueryPart(context_query) ==
    IF Contains(" | query: ", context_query)
    THEN LET parts == SplitOn(context_query, " | query: ", "") IN parts[Len(parts)]
    ELSE context_query

\* The extraction of _extract_search_criteria_fast from the lowercased query
FastCriteria(query, vocabulary, words) ==
    WithKeywords(NamedCriteria(query, vocabulary,
                               <<"all priority", "priority tasks", "priority task">>),
                 query, words)

\* _extract_search_criteria_fast
ExtractSearchCriteriaFast(context_query, vocabulary, words) ==
    FastCriteria(Lower(QueryPart(context_query)), vocabulary, words)

\* _fallback_criteria_extraction
FallbackCriteriaExtraction(query, vocabulary) ==
    NamedCriteria(Lower(query), vocabulary,
                  <<"priority tasks", "all priority tasks", "priority task">>)

(***************************************************************************)
(* The classifier: _should_use_llm.                                        *)
(***************************************************************************)
ComplexPatterns ==
    <<"why", "how", "explain", "describe", "analyze", "analysis",
      "trend", "pattern", "bottleneck", "delay", "risk", "issue",
      "performance", "velocity", "quality", "health", "summary",
      "and", "or", "but", "however", "although", "while",
      "except", "excluding", "including", "combine", "merge",
      "compare", "versus", "vs", "difference", "similar",
      "better", "worse", "faster", "slower", "higher", "lower",
      "when", "since", "until", "before", "after", "during",
      "recent", "old", "new", "updated", "created", "modified",
      "how many", "how much", "count", "total", "average",
      "percentage", "ratio", "proportion", "majority", "minority">>

NaturalLanguageIndicators ==
    <<"which", "what are", "show me", "find all", "get me",
      "can you", "please", "would you", "could you">>

\* The number of categories among priority, status, issue_type and assignees
\* that have a value in the query
CriteriaCount(query_lower, vocabulary) ==
    Cardinality({c \in {"priority", "status", "issue_type", "assignees"} :
                    AnyIn(vocabulary[c], query_lower)})

\* The five tests of _should_use_llm on the stripped, lowercased query
NeedsLlm(query_lower, vocabulary) ==
    \/ Len(query_lower) < 3
    \/ AnyIn(ComplexPatterns, query_lower)
    \/ CriteriaCount(query_lower, vocabulary) > 2
    \/ AnyIn(NaturalLanguageIndicators, query_lower)
    \/ Len(Split(query_lower)) > 8

\* _should_use_llm
ShouldUseLlm(query, vocabulary) == NeedsLlm(Strip(Lower(query)), vocabulary)

(***************************************************************************)
(* The collaborators.  The vector store answers a call, raises or never    *)
(* answers; so does the generative model, whose answer to the criteria     *)
(* prompt is a JSON value or a text json.loads rejects.                    *)
(***************************************************************************)
StoreModes == {"ok", "raise", "hang"}

Json(kind, assignee, priority, status, issue_type) ==
    [kind |-> kind, assignee |-> assignee, priority |-> priority,
     status |-> status, issue_type |-> issue_type, keywords |-> <<>>]

\* A text that is not JSON
InvalidJson == Json("invalid", Null, Null, Null, Null)

\* ["high"]: JSON, but no object
JsonArray == Json("list", Null, Null, Null, Null)

\* {"assignee": null, "priority": null, "status": null, "issue_type": null}
NullObject == Json("object", Null, Null, Null, Null)

\* {"priority": "high", "issue_type": "bug"}
HighBugObject == Json("object", Null, Str("high"), Null, Str("bug"))

\* {"status": ["done"]}
StatusListObject == Json("object", Null, Null, List(<<"done">>), Null)

LlmReplies == {InvalidJson, JsonArray, NullObject, HighBugObject, StatusListObject}

LlmBehaviours ==
    {[mode |-> "raise", reply |-> InvalidJson], [mode |-> "hang", reply |-> InvalidJson]}
    \cup {[mode |-> "ok", reply |-> r] : r \in LlmReplies}

\* _extract_single_criteria: the first value of each category that the part
\* contains (assignees without the spaces removed); None, which stands as the
\* kind "none", for a part that names no value
ExtractSingleCriteria(query_part, vocabulary) ==
    LET named == SelectSeq(vocabulary.assignees, LAMBDA a : Contains(a, query_part))
        criteria == Json("object",
                         IF named = <<>> THEN Null ELSE Str(named[1]),
                         NamedValue(vocabulary.priority, query_part),
                         NamedValue(vocabulary.status, query_part),
                         NamedValue(vocabulary.issue_type, query_part))
    IN IF \/ Truthy(criteria.priority) \/ Truthy(criteria.status)
          \/ Truthy(criteria.issue_type) \/ Truthy(criteria.assignee)
       THEN criteria
       ELSE [criteria EXCEPT !.kind = "none"]

\* _parse_complex_query_logic: parsed_criteria when more than one part of the
\* query gave criteria, the dict of _extract_search_criteria_fast otherwise.
\* That dict has no key logic_operators or criteria_groups; the two stand as
\* empty lists here.
ParseComplexQueryLogic(query, vocabulary, words) ==
    LET query_lower == Strip(Lower(query))
        connective == IF Contains(" and ", query_lower) THEN " and "
                      ELSE IF Contains(" or ", query_lower) THEN " or "
                      ELSE ""
        parts == IF connective = "" THEN <<query_lower>>
                 ELSE SplitOn(query_lower, connective, "")
        criteria_groups ==
            SelectSeq([i \in 1..Len(parts) |->
                          ExtractSingleCriteria(Strip(parts[i]), vocabulary)],
                      LAMBDA part_criteria : part_criteria.kind # "none")
    IN IF Len(criteria_groups) > 1
       THEN Json("object", Null, Null, Null, Null)
            @@ [logic_operators |-> <<IF connective = " and " THEN "AND" ELSE "OR">>,
                criteria_groups |-> criteria_groups]
       ELSE ExtractSearchCriteriaFast(query, vocabulary, words)
            @@ [logic_operators |-> <<>>, criteria_groups |-> <<>>]

(***************************************************************************)
(* Filtering the documents of the vector store.                            *)
(***************************************************************************)
\* "if filter and metadata.get(field, '').lower() != filter.lower(): continue"
PassesFilter(value, filter) == filter = NoFilter \/ Lower(value) = Lower(filter)

\* The four criteria tests on the metadata of one document: "include",
\* "exclude", or "raise" for the AttributeError of .get on a value that is no
\* dict and of .lower() on a list
CriteriaOutcome(search_criteria, metadata) ==
    LET Equal(criterion, value) ==
            ~Truthy(criterion) \/ Lower(value) = Lower(criterion.str)
        priority_ok ==
            \/ ~Truthy(search_criteria.priority)
            \/ IF search_criteria.priority.kind = "list"
               THEN \E i \in 1..Len(search_criteria.priority.items) :
                        Lower(metadata.priority) = Lower(search_criteria.priority.items[i])
               ELSE Lower(metadata.priority) = Lower(search_criteria.priority.str)
        assignee_ok ==
            \/ ~Truthy(search_criteria.assignee)
            \/ Contains(Lower(search_criteria.assignee.str), Lower(metadata.assignee))
        Raises(criterion) == Truthy(criterion) /\ criterion.kind = "list"
    IN IF \/ search_criteria.kind # "object"
          \/ Raises(search_criteria.status)
          \/ Raises(search_criteria.issue_type)
          \/ Raises(search_criteria.assignee)
       THEN "raise"
       ELSE IF /\ priority_ok
               /\ Equal(search_criteria.status, metadata.status)
               /\ Equal(search_criteria.issue_type, metadata.issue_type)
               /\ assignee_ok
            THEN "include"
            ELSE "exclude"

\* _apply_intelligent_filtering.  A search_criteria that is falsy (None, kind
\* "none", or {}, kind "empty") returns the results as they came, before the
\* project filter; so does the except, reached by .get on a value that is no
\* dict inside the loop.
ApplyIntelligentFiltering(search_results, search_criteria, project_filter) ==
    LET Matches(criterion, value) ==
            \/ ~Truthy(criterion)
            \/ IF criterion.kind = "list"
               THEN \E i \in 1..Len(criterion.items) : Lower(value) = Lower(criterion.items[i])
               ELSE Lower(value) = Lower(criterion.str)
        AssigneeMatches(criterion, value) ==
            \/ ~Truthy(criterion)
            \/ IF criterion.kind = "list"
               THEN \E i \in 1..Len(criterion.items) :
                       Contains(Lower(criterion.items[i]), Lower(value))
               ELSE Contains(Lower(criterion.str), Lower(value))
    IN IF search_criteria.kind \in {"none", "empty"} THEN search_results
       ELSE IF search_criteria.kind # "object" /\ search_results # <<>> THEN search_results
       ELSE SelectSeq(search_results, LAMBDA d :
                /\ AssigneeMatches(search_criteria.assignee, d.assignee)
                /\ Matches(search_criteria.priority, d.priority)
                /\ Matches(search_criteria.status, d.status)
                /\ Matches(search_criteria.issue_type, d.issue_type)
                /\ PassesFilter(d.project_id, project_filter))

\* _criteria_group_matches: only priority may be a list; .lower() on a list
\* (assignee, status, issue_type) and .get on a group that is no dict raise,
\* and the except returns False
CriteriaGroupMatches(metadata, criteria_group) ==
    /\ criteria_group.kind \in {"object", "empty"}
    /\ \/ ~Truthy(criteria_group.assignee)
       \/ /\ criteria_group.assignee.kind = "str"
          /\ Contains(Lower(criteria_group.assignee.str), Lower(metadata.assignee))
    /\ \/ ~Truthy(criteria_group.priority)
       \/ IF criteria_group.priority.kind = "list"
          THEN \E i \in 1..Len(criteria_group.priority.items) :
                  Lower(metadata.priority) = Lower(criteria_group.priority.items[i])
          ELSE Lower(metadata.priority) = Lower(criteria_group.priority.str)
    /\ \/ ~Truthy(criteria_group.status)
       \/ /\ criteria_group.status.kind = "str"
          /\ Lower(metadata.status) = Lower(criteria_group.status.str)
    /\ \/ ~Truthy(criteria_group.issue_type)
       \/ /\ criteria_group.issue_type.kind = "str"
          /\ Lower(metadata.issue_type) = Lower(criteria_group.issue_type.str)

\* The same with every operator read as AND
ApplyEveryGroup(search_results, complex_criteria) ==
    SelectSeq(search_results, LAMBDA d :
        \A i \in 1..Len(complex_criteria.criteria_groups) :
           CriteriaGroupMatches(d, complex_criteria.criteria_groups[i]))

\* _apply_complex_criteria_filtering: _apply_intelligent_filtering, without a
\* project filter, for at most one group; the groups under the first operator
\* otherwise, "AND" for a dict without logic_operators
ApplyComplexCriteriaFiltering(search_results, complex_criteria) ==
    LET logic_operator == IF complex_criteria.logic_operators = <<>> THEN "AND"
                          ELSE complex_criteria.logic_operators[1]
    IN IF Len(complex_criteria.criteria_groups) <= 1
       THEN ApplyIntelligentFiltering(search_results, complex_criteria, NoFilter)
       ELSE SelectSeq(search_results, LAMBDA d :
                IF logic_operator = "AND"
                THEN \A i \in 1..Len(complex_criteria.criteria_groups) :
                        CriteriaGroupMatches(d, complex_criteria.criteria_groups[i])
                ELSE IF logic_operator = "OR"
                THEN \E i \in 1..Len(complex_criteria.criteria_groups) :
                        CriteriaGroupMatches(d, complex_criteria.criteria_groups[i])
                ELSE TRUE)

\* The first position from `from` on where needle starts in hay; 0 for none
Find(needle, hay, from) ==
    LET starts == {i \in from..(Len(hay) - Len(needle) + 1) :
                      SubSeq(hay, i, i + Len(needle) - 1) = needle}
    IN IF starts = {} THEN 0 ELSE CHOOSE i \in starts : \A j \in starts : i <= j

\* The end of the title: the next "Title: " or the end of the line, whichever
\* comes first, the end of the content without either
TitleEnd(content, next, line) ==
    IF next > 0 /\ (line = 0 \/ next < line) THEN next
    ELSE IF line > 0 THEN line
    ELSE Len(content) + 1

\* The title that follows the "Title: " at start
TitleFrom(content, start) ==
    IF start = 0 THEN "Unknown Title"
    ELSE Strip(SubSeq(content, start + 7,
                      TitleEnd(content, Find("Title: ", content, start + 7),
                               Find("\n", content, start + 7)) - 1))

\* content.split('Title: ')[1].split('\n')[0].strip(), 'Unknown Title' without
\* a title line
ParseTitle(content) == TitleFrom(content, Find("Title: ", content, 1))

\* A metadata value TaskData rejects: a value that is no str (Chroma keeps
\* int, float and bool values as well) or None.  It stands here as a text
\* that no field of a JIRA item holds.
NotAString == "<int>"

\* The TaskData object built from one filtered document; TaskData(id=...)
\* raises a ValidationError for an id that is no str
MakeTaskData(doc) ==
    [id |-> doc.task_id,
     title |-> IF doc.content # "" THEN ParseTitle(doc.content) ELSE "Unknown Title",
     description |-> IF doc.content # "" THEN doc.content ELSE "No description available",
     status |-> doc.status,
     priority |-> doc.priority,
     assignee |-> doc.assignee,
     reporter |-> "Unknown",
     issue_type |-> doc.issue_type,
     resolution |-> "Unresolved",
     project |-> doc.project_id,
     sprint |-> doc.sprint_id]

\* The sprint filter alone: the documents of every project pass
SprintFilterOnly(metadata, sprint_filter, project_filter) ==
    PassesFilter(metadata.sprint_id, sprint_filter)

\* The sprint and the project filter of _fast_simple_query and of
\* extract_structured_tasks: a document that fails one is skipped
PassesContextFilters(metadata, sprint_filter, project_filter) ==
    /\ PassesFilter(metadata.sprint_id, sprint_filter)
    /\ PassesFilter(metadata.project_id, project_filter)

\* _build_context_aware_query
BuildContextAwareQuery(query, sprint_filter, project_filter) ==
    Join(<<"Query: " \o query>>
         \o (IF sprint_filter # NoFilter THEN <<"Sprint: " \o sprint_filter>> ELSE <<>>)
         \o (IF project_filter # NoFilter THEN <<"Project: " \o project_filter>> ELSE <<>>),
         " | ")

\* _extract_search_criteria_with_llm: the parsed answer of the model, whatever
\* JSON value it is; the fallback extraction when invoke raised or json.loads
\* rejected the answer
ExtractSearchCriteriaWithLlm(context_query, llm, vocabulary) ==
    IF llm.mode = "ok" /\ llm.reply.kind # "invalid"
    THEN llm.reply
    ELSE FallbackCriteriaExtraction(context_query, vocabulary)

\* What the try block of extract_structured_tasks leaves: the tasks, or that it
\* raised, with the criteria it used and the calls it made
Extraction(search_criteria, raised, filtered_docs, store) ==
    [raised |-> raised \/ \E i \in 1..Len(filtered_docs) :
                              filtered_docs[i].task_id = NotAString,
     tasks |-> IF raised \/ \E i \in 1..Len(filtered_docs) :
                                filtered_docs[i].task_id = NotAString
               THEN <<>>
               ELSE [i \in 1..Len(filtered_docs) |-> MakeTaskData(filtered_docs[i])],
     criteria |-> search_criteria,
     llm_calls |-> 1,
     get_calls |-> 1,
     similarity_calls |-> 0,
     retrieval_failed |-> store # "ok"]

\* Step 3 of extract_structured_tasks: get() and the loop over the documents
\* that passed the sprint and the project filter
FilterWithCriteria(search_criteria, candidates, store) ==
    Extraction(search_criteria,
               \/ store # "ok"
               \/ \E i \in 1..Len(candidates) :
                      CriteriaOutcome(search_criteria, candidates[i]) = "raise",
               SelectSeq(candidates, LAMBDA d :
                   CriteriaOutcome(search_criteria, d) = "include"),
               store)

\* The try block of extract_structured_tasks.  A collaborator that never
\* answers is followed here like one that raises; the handlers stop at the
\* first call to it.
ExtractStructuredTasksBody(query, sprint_filter, project_filter, docs, store, llm, vocabulary) ==
    FilterWithCriteria(
        ExtractSearchCriteriaWithLlm(
            BuildContextAwareQuery(query, sprint_filter, project_filter), llm, vocabulary),
        SelectSeq(docs, LAMBDA d : PassesContextFilters(d, sprint_filter, project_filter)),
        store)

\* The same with nothing to catch what the body raises
ExtractStructuredTasksUnguarded(query, sprint_filter, project_filter, docs, store, llm, vocabulary) ==
    ExtractStructuredTasksBody(query, sprint_filter, project_filter, docs, store, llm, vocabulary)

\* extract_structured_tasks: the except clause returns []
ExtractStructuredTasks(query, sprint_filter, project_filter, docs, store, llm, vocabulary) ==
    [ExtractStructuredTasksBody(query, sprint_filter, project_filter, docs, store, llm, vocabulary)
        EXCEPT !.raised = FALSE]

\* get_dynamic_k
GetDynamicK(query, sprint_filter, project_filter, docs, store) ==
    LET total_docs == Len(docs)
        Min(a, b) == IF a < b THEN a ELSE b
    IN IF store # "ok" THEN 20
       ELSE IF sprint_filter # NoFilter /\ project_filter # NoFilter THEN Min(30, total_docs)
       ELSE IF sprint_filter # NoFilter THEN Min(40, total_docs)
       ELSE IF Contains("all", Lower(query)) \/ Contains("list", Lower(query))
            THEN Min(25, total_docs)
       ELSE Min(20, total_docs)

\* The if/elif chain of the sprint branch of process_query: the keywords of
\* each test and the text a document must contain when the test is the first
\* that the query passes
ContentTests ==
    <<<< <<"high priority", "priority high", "high">>, "priority: high" >>,
      << <<"medium priority", "priority medium", "medium">>, "priority: medium" >>,
      << <<"low priority", "priority low", "low">>, "priority: low" >>,
      << <<"done", "completed", "finished">>, "status: done" >>,
      << <<"in progress", "progress">>, "status: in progress" >>,
      << <<"to do", "todo", "pending">>, "status: to do" >>,
      << <<"in review", "review">>, "status: in review" >>,
      << <<"bug", "bugs">>, "issue type: bug" >>,
      << <<"story", "stories">>, "issue type: story" >>,
      << <<"task", "tasks">>, "issue type: task" >> >>

\* The documents whose content passes the first test that the query passes
ContentScan(query_lower, passed, filtered_docs) ==
    IF query_lower = "show all tasks" \/ query_lower = "list all tasks" \/ passed = <<>>
    THEN filtered_docs
    ELSE SelectSeq(filtered_docs, LAMBDA d : Contains(passed[1][2], Lower(d.content)))

\* The content tests for the lowercased query: passed are the tests of the
\* if/elif chain that the query passes
ScanFor(query_lower, filtered_docs) ==
    ContentScan(query_lower,
                SelectSeq(ContentTests, LAMBDA t : AnyIn(t[1], query_lower)),
                filtered_docs)

\* The sprint branch of process_query: the documents of the sprint, narrowed
\* by the content test unless the query is "show all tasks" or "list all tasks"
SprintScan(query, sprint_filter, docs) ==
    ScanFor(Lower(query),
            SelectSeq(docs, LAMBDA d : Lower(d.sprint_id) = Lower(sprint_filter)))

\* similarity_search_by_vector(query_embedding, k): the k nearest documents.
\* No corpus of the model holds more than k documents, so that all are
\* returned; the result is kept in the order of the collection.
SimilaritySearch(docs, k) == SubSeq(docs, 1, IF k < Len(docs) THEN k ELSE Len(docs))

\* The semantic search whatever the filters
AlwaysSemantic(sprint_filter) == "semantic"

\* "if sprint_filter:" on the slow path of process_query
SlowPathStrategy(sprint_filter) == IF sprint_filter # NoFilter THEN "sprint" ELSE "semantic"

\* What _fast_simple_query returns for the documents it kept; its own except
\* clause turns what get() raises into text
FastAnswer(filtered_docs, store) ==
    [raised |-> FALSE,
     path |-> "fast",
     text |-> IF store # "ok" THEN "Fast query processing failed"
              ELSE IF filtered_docs = <<>> THEN "No tasks found matching your criteria"
              ELSE "Found tasks matching your criteria",
     retrieved |-> IF store # "ok" THEN <<>> ELSE filtered_docs,
     llm_calls |-> 0,
     get_calls |-> 1,
     similarity_calls |-> 0,
     retrieval_failed |-> store # "ok"]

\* The loop of _fast_simple_query over the documents
FastFilter(search_criteria, sprint_filter, project_filter, docs) ==
    SelectSeq(docs, LAMBDA d :
        /\ PassesContextFilters(d, sprint_filter, project_filter)
        /\ CriteriaOutcome(search_criteria, d) = "include")

\* _fast_simple_query
FastSimpleQuery(query, sprint_filter, project_filter, docs, store, vocabulary, words) ==
    FastAnswer(FastFilter(ExtractSearchCriteriaFast(SanitizeQuery(query, vocabulary, words),
                                                    vocabulary, words),
                          sprint_filter, project_filter, docs),
               store)

\* What the slow path of process_query leaves: the model is invoked on the
\* documents found, and not at all when there are none
SlowAnswer(strategy, found, store, llm) ==
    [raised |-> store # "ok" \/ (found # <<>> /\ llm.mode # "ok"),
     path |-> strategy,
     text |-> IF store = "ok" /\ found = <<>>
              THEN "No tasks found matching the criteria."
              ELSE "Retrieved Tasks",
     retrieved |-> found,
     llm_calls |-> IF store = "ok" /\ found # <<>> THEN 1 ELSE 0,
     get_calls |-> IF strategy = "sprint" THEN 2 ELSE 1,
     similarity_calls |-> IF strategy = "semantic" THEN 1 ELSE 0,
     retrieval_failed |-> store # "ok"]

\* The documents of the slow path: those of the sprint, or the nearest ones
SlowSearch(strategy, query, sprint_filter, docs, store) ==
    IF store # "ok" THEN <<>>
    ELSE IF strategy = "sprint" THEN SprintScan(query, sprint_filter, docs)
    ELSE SimilaritySearch(docs, GetDynamicK(query, sprint_filter, NoFilter, docs, store))

\* The slow path of process_query, which reads the sprint filter only
SlowQuery(strategy, query, sprint_filter, docs, store, llm) ==
    SlowAnswer(strategy, SlowSearch(strategy, query, sprint_filter, docs, store), store, llm)

\* The try block of process_query.  retrieved are the documents the answer is
\* built from: those the fast path counts, those the slow path hands to the
\* model as context.
ProcessQueryBody(query, sprint_filter, project_filter, docs, store, llm, vocabulary, words) ==
    IF ~ShouldUseLlm(query, vocabulary)
    THEN FastSimpleQuery(query, sprint_filter, project_filter, docs, store, vocabulary, words)
    ELSE SlowQuery(SlowPathStrategy(sprint_filter), query, sprint_filter, docs, store, llm)

\* The except clause of process_query: what the body raised becomes the text
\* of the answer, which then shows none of the documents
Caught(body) ==
    IF body.raised
    THEN [body EXCEPT !.raised = FALSE,
                      !.text = "I'm sorry, I encountered an error while processing your request",
                      !.retrieved = <<>>]
    ELSE body

\* The same with nothing to catch what the body raises
ProcessQueryUnguarded(query, sprint_filter, project_filter, docs, store, llm, vocabulary, words) ==
    ProcessQueryBody(query, sprint_filter, project_filter, docs, store, llm, vocabulary, words)

\* process_query
ProcessQuery(query, sprint_filter, project_filter, docs, store, llm, vocabulary, words) ==
    Caught(ProcessQueryBody(query, sprint_filter, project_filter, docs, store, llm,
                            vocabulary, words))

\* A query that calls nothing: the texts get_structured_data writes itself
NoQuery(text) ==
    [raised |-> FALSE, path |-> "none", text |-> text, retrieved |-> <<>>,
     llm_calls |-> 0, get_calls |-> 0, similarity_calls |-> 0, retrieval_failed |-> FALSE]

\* No call of extract_structured_tasks: the text branch of get_structured_data
NoExtraction ==
    [raised |-> FALSE, tasks |-> <<>>, criteria |-> Json("none", Null, Null, Null, Null),
     llm_calls |-> 0, get_calls |-> 0, similarity_calls |-> 0, retrieval_failed |-> FALSE]

\* _perform_intelligent_search: the search it hands the query to
PerformIntelligentSearch(sprint_filter, project_filter) ==
    IF sprint_filter # NoFilter /\ project_filter # NoFilter THEN "targeted"
    ELSE IF sprint_filter # NoFilter \/ project_filter # NoFilter THEN "hybrid"
    ELSE "semantic"

\* The similarity searches of _targeted_search, _hybrid_search and
\* _semantic_search
SearchSimilarityCalls(search) == IF search = "targeted" THEN 0 ELSE 1

(***************************************************************************)
(* The service.  The handlers are coroutines without an await: the event   *)
(* loop runs one of them at a time, from its first line to its return.     *)
(***************************************************************************)
VARIABLES
    vectorstore,        \* the documents of the collection "project_data"
    rag_instance,       \* "none" until get_rag_instance has built _rag_instance
    dynamic_vocabulary, \* SimpleRAGChat.dynamic_vocabulary
    known_words,        \* SimpleRAGChat.known_words
    phase,              \* what the event loop is doing
    resp,               \* the response of the handler that runs or has just returned
    backlog,            \* a query has arrived while the loop was busy with a refresh
    snapshot,           \* the vocabulary and the known words of the last finished build
    call                \* a method called on the instance outside a request: its
                        \* name, its arguments and what it returned

vars == <<vectorstore, rag_instance, dynamic_vocabulary, known_words, phase, resp,
          backlog, snapshot, call>>

\* No method is called outside the requests
NoCall == [method |-> "none"]

NoSnapshot == [dynamic_vocabulary |-> EmptyVocabulary, known_words |-> <<>>]

NoResponse ==
    [endpoint |-> "none", status |-> 0,
     message |-> "", sprint |-> NoFilter, project |-> NoFilter, store |-> "ok",
     llm |-> [mode |-> "ok", reply |-> InvalidJson],
     query |-> "", needs_llm |-> FALSE, message_type |-> "none",
     path |-> "none", text |-> "", retrieved |-> <<>>,
     tasks |-> <<>>, criteria |-> NoExtraction.criteria,
     llm_calls |-> 0, get_calls |-> 0, similarity_calls |-> 0, retrieval_failed |-> FALSE,
     read |-> NoSnapshot, queued |-> FALSE,
     success |-> FALSE, count |-> 0, added |-> 0]

\* A handler that starts while the refresh is between two of its assignments
LoopFreeOrRefreshing(p) == p \in {"idle", "reset", "collected", "fallback"}

\* The event loop can start a handler
LoopFree(p) == p = "idle"

\* list(set) gives the values of a category in an order the code does not
\* choose: the builds of the model take one of two
Orders(instance) == IF instance = "none" THEN BOOLEAN ELSE {FALSE}

\* get_rag_instance: the vocabulary and the known words of the shared
\* instance, built by SimpleRAGChat() on the first call
GetRagInstance(instance, vocabulary, words, docs, store, descending) ==
    IF instance = "none"
    THEN InitIntelligentCorrections(docs, store = "ok", descending)
    ELSE [dynamic_vocabulary |-> vocabulary, known_words |-> words]

\* The calls of get() that SimpleRAGChat() makes: _init_intelligent_corrections
\* and _refresh_vocabulary_on_startup
ConstructorCalls(instance) == IF instance = "none" THEN 2 ELSE 0

\* A call was made to a collaborator that never answers
Blocks(store, llm, store_calls, llm_calls) ==
    \/ store = "hang" /\ store_calls > 0
    \/ llm.mode = "hang" /\ llm_calls > 0

\* The handler waits for ever in a call; SimpleRAGChat() has returned unless
\* it was the vector store that it waited for
Block(endpoint, store, rag) ==
    LET built == rag_instance # "none" \/ store # "hang"
    IN /\ phase' = "blocked"
       /\ resp' = [NoResponse EXCEPT !.endpoint = endpoint]
       /\ rag_instance' = IF built THEN "ready" ELSE "none"
       /\ dynamic_vocabulary' = IF built THEN rag.dynamic_vocabulary ELSE dynamic_vocabulary
       /\ known_words' = IF built THEN rag.known_words ELSE known_words
       /\ snapshot' = IF built THEN rag ELSE snapshot
       /\ backlog' = FALSE
       /\ UNCHANGED call

\* The handler returns; the instance it used stays
Return(response, rag) ==
    /\ phase' = "responding"
    /\ resp' = response
    /\ rag_instance' = "ready"
    /\ dynamic_vocabulary' = rag.dynamic_vocabulary
    /\ known_words' = rag.known_words
    /\ snapshot' = IF rag_instance = "none" THEN rag ELSE snapshot
    /\ backlog' = FALSE
    /\ UNCHANGED call

\* The response of chat and of get_structured_data
QueryResponse(endpoint, request, query, needs_llm, message_type, pq, ex, rag, constructor_calls) ==
    [NoResponse EXCEPT
        !.endpoint = endpoint,
        !.status = IF pq.raised \/ ex.raised THEN 500 ELSE 200,
        !.message = request.message,
        !.sprint = request.sprint,
        !.project = request.project,
        !.store = request.store,
        !.llm = request.llm,
        !.query = query,
        !.needs_llm = needs_llm,
        !.message_type = message_type,
        !.path = pq.path,
        !.text = pq.text,
        !.retrieved = pq.retrieved,
        !.tasks = ex.tasks,
        !.criteria = ex.criteria,
        !.llm_calls = pq.llm_calls + ex.llm_calls,
        !.get_calls = pq.get_calls + ex.get_calls + constructor_calls,
        !.similarity_calls = pq.similarity_calls + ex.similarity_calls,
        !.retrieval_failed = pq.retrieval_failed \/ ex.retrieval_failed,
        !.read = rag,
        !.queued = backlog]

\* The answers of the model that chat tells apart: process_query uses the
\* answer as text
ChatLlmBehaviours == {b \in LlmBehaviours : b.mode # "ok" \/ b.reply = NullObject}

\* POST /chat
Chat ==
    /\ LoopFree(phase)
    /\ \E store \in StoreModes, descending \in Orders(rag_instance) :
       \E rag \in {GetRagInstance(rag_instance, dynamic_vocabulary, known_words,
                                  vectorstore, store, descending)} :
       \E message \in Messages, sprint_filter \in SprintFilters,
          project_filter \in ProjectFilters, llm \in ChatLlmBehaviours :
       \E pq \in {ProcessQuery(message, sprint_filter, project_filter, vectorstore,
                               store, llm, rag.dynamic_vocabulary, rag.known_words)} :
          IF Blocks(store, llm,
                    ConstructorCalls(rag_instance) + pq.get_calls + pq.similarity_calls,
                    pq.llm_calls)
          THEN Block("chat", store, rag) /\ UNCHANGED vectorstore
          ELSE /\ Return(QueryResponse("chat",
                                       [message |-> message, sprint |-> sprint_filter,
                                        project |-> project_filter, store |-> store,
                                        llm |-> llm],
                                       message,
                                       ShouldUseLlm(message, rag.dynamic_vocabulary),
                                       "text", pq, NoExtraction, rag,
                                       ConstructorCalls(rag_instance)), rag)
               /\ UNCHANGED vectorstore

\* The keywords that make a message a task query for get_structured_data
TaskKeywords == <<"task", "tasks", "sprint", "show", "list", "all", "bug", "story", "issue">>

\* The chat response of get_structured_data: process_query for a message the
\* classifier finds complex, a text of its own for the others
DataQuery(needs_llm, is_task_query, corrected_message, sprint_filter, project_filter, docs, store, llm, vocabulary, words) ==
    IF needs_llm
    THEN ProcessQuery(corrected_message, sprint_filter, project_filter, docs, store, llm,
                      vocabulary, words)
    ELSE IF is_task_query THEN NoQuery("Found tasks matching your criteria")
    ELSE NoQuery("Processing your request")

\* The tasks of get_structured_data: extract_structured_tasks for a task query
DataTasks(is_task_query, corrected_message, sprint_filter, project_filter, docs, store, llm, vocabulary) ==
    IF is_task_query
    THEN ExtractStructuredTasks(corrected_message, sprint_filter, project_filter, docs,
                                store, llm, vocabulary)
    ELSE NoExtraction

\* POST /data
GetStructuredData ==
    /\ LoopFree(phase)
    /\ \E store \in StoreModes, descending \in Orders(rag_instance) :
       \E rag \in {GetRagInstance(rag_instance, dynamic_vocabulary, known_words,
                                  vectorstore, store, descending)} :
       \E message \in Messages :
       \E corrected_message \in {SanitizeQuery(message, rag.dynamic_vocabulary,
                                               rag.known_words)} :
       \E is_task_query \in {AnyIn(TaskKeywords, Lower(corrected_message))},
          needs_llm \in {ShouldUseLlm(corrected_message, rag.dynamic_vocabulary)} :
       \E sprint_filter \in SprintFilters, project_filter \in ProjectFilters,
          llm \in LlmBehaviours :
       \E pq \in {DataQuery(needs_llm, is_task_query, corrected_message, sprint_filter,
                            project_filter, vectorstore, store, llm,
                            rag.dynamic_vocabulary, rag.known_words)},
          ex \in {DataTasks(is_task_query, corrected_message, sprint_filter,
                            project_filter, vectorstore, store, llm,
                            rag.dynamic_vocabulary)} :
          IF Blocks(store, llm,
                    ConstructorCalls(rag_instance) + pq.get_calls + pq.similarity_calls
                        + ex.get_calls + ex.similarity_calls,
                    pq.llm_calls + ex.llm_calls)
          THEN Block("data", store, rag) /\ UNCHANGED vectorstore
          ELSE /\ Return(QueryResponse("data",
                                       [message |-> message, sprint |-> sprint_filter,
                                        project |-> project_filter, store |-> store,
                                        llm |-> llm],
                                       corrected_message, needs_llm,
                                       IF is_task_query THEN "task_list" ELSE "text",
                                       pq, ex, rag, ConstructorCalls(rag_instance)), rag)
               /\ UNCHANGED vectorstore

\* DELETE /clear-embeddings
ClearEmbeddings ==
    /\ LoopFree(phase)
    /\ \E store \in StoreModes, descending \in Orders(rag_instance) :
         LET rag == GetRagInstance(rag_instance, dynamic_vocabulary, known_words,
                                   vectorstore, store, descending)
             current_count == Len(vectorstore)
             response == [NoResponse EXCEPT
                             !.endpoint = "clear-embeddings",
                             !.status = IF store = "ok" THEN 200 ELSE 500,
                             !.store = store,
                             !.get_calls = ConstructorCalls(rag_instance) + 1,
                             !.success = store = "ok",
                             !.count = IF store = "ok" THEN current_count ELSE 0]
         IN IF store = "hang"
            THEN Block("clear-embeddings", store, rag) /\ UNCHANGED vectorstore
            ELSE /\ Return(response, rag)
                 /\ vectorstore' = IF store = "ok" THEN <<>> ELSE vectorstore

\* What add_documents does with the documents of a request: it adds the batch,
\* or it raises and each document is added on its own, or that raises as well
AddModes == {"ok", "retry", "fail"}

\* POST /process-jira-data, up to the point where _init_intelligent_corrections
\* has assigned dynamic_vocabulary: six empty sets after get(), the fallback
\* vocabulary when get() raised
ProcessJiraData ==
    /\ LoopFree(phase)
    /\ \E jira_data \in SeqsUpTo(JiraItems, MaxDocs), store \in StoreModes, add \in AddModes,
          descending \in Orders(rag_instance) :
         LET rag == GetRagInstance(rag_instance, dynamic_vocabulary, known_words,
                                   vectorstore, store, descending)
             documents == [i \in 1..Len(jira_data) |-> MakeDocument(jira_data[i])]
             added == IF add = "fail" THEN <<>> ELSE documents
             response == [NoResponse EXCEPT
                             !.endpoint = "process-jira-data",
                             !.status = 200,
                             !.store = store,
                             !.get_calls = ConstructorCalls(rag_instance) + 1,
                             !.success = TRUE,
                             !.count = Len(documents),
                             !.added = Len(added)]
         IN /\ Len(vectorstore) + Len(jira_data) <= MaxDocs
            /\ IF jira_data = <<>>
               THEN /\ phase' = "responding"
                    /\ resp' = [NoResponse EXCEPT !.endpoint = "process-jira-data",
                                                  !.status = 200]
                    /\ UNCHANGED <<vectorstore, rag_instance, dynamic_vocabulary,
                                   known_words, backlog, snapshot, call>>
               ELSE IF store = "hang"
               THEN /\ Block("process-jira-data", store, rag)
                    /\ vectorstore' = IF rag_instance = "none" THEN vectorstore
                                      ELSE vectorstore \o added
               ELSE /\ vectorstore' = vectorstore \o added
                    /\ rag_instance' = "ready"
                    /\ dynamic_vocabulary' = IF store = "ok" THEN EmptyVocabulary
                                             ELSE FallbackVocabulary.dynamic_vocabulary
                    /\ known_words' = rag.known_words
                    /\ phase' = IF store = "ok" THEN "reset" ELSE "fallback"
                    /\ resp' = response
                    /\ snapshot' = IF rag_instance = "none" THEN rag ELSE snapshot
                    /\ UNCHANGED <<backlog, call>>

\* _init_intelligent_corrections: the loop over the metadata has filled the
\* sets and they have become lists
RefreshCollect ==
    /\ phase = "reset"
    /\ \E descending \in BOOLEAN :
         dynamic_vocabulary' = CollectVocabulary(vectorstore, descending)
    /\ phase' = "collected"
    /\ UNCHANGED <<vectorstore, rag_instance, known_words, resp, backlog, snapshot, call>>

\* _init_intelligent_corrections: known_words is built,
\* _ensure_vocabulary_initialized has run, and process_jira_data returns
RefreshComplete ==
    /\ phase = "collected"
    /\ phase' = "responding"
    /\ \E built \in {EnsureVocabularyInitialized(dynamic_vocabulary,
                                                  BuildKnownWords(dynamic_vocabulary))} :
          /\ dynamic_vocabulary' = built.dynamic_vocabulary
          /\ known_words' = built.known_words
          /\ snapshot' = built
    /\ UNCHANGED <<vectorstore, rag_instance, resp, backlog, call>>

\* The except branch of _init_intelligent_corrections assigns known_words
\* after dynamic_vocabulary, and process_jira_data returns
RefreshFallback ==
    /\ phase = "fallback"
    /\ known_words' = FallbackVocabulary.known_words
    /\ snapshot' = FallbackVocabulary
    /\ phase' = "responding"
    /\ UNCHANGED <<vectorstore, rag_instance, dynamic_vocabulary, resp, backlog, call>>

\* A query arrives while the loop runs the refresh: it waits for the loop
Arrive ==
    /\ phase \in {"reset", "collected", "fallback"}
    /\ ~backlog
    /\ backlog' = TRUE
    /\ UNCHANGED <<vectorstore, rag_instance, dynamic_vocabulary, known_words, phase, resp,
                   snapshot, call>>

\* The response is sent and the loop takes the next request
Respond ==
    /\ phase = "responding"
    /\ phase' = "idle"
    /\ resp' = NoResponse
    /\ UNCHANGED <<vectorstore, rag_instance, dynamic_vocabulary, known_words, backlog,
                   snapshot, call>>

\* The service starts on the collection it finds on disk, before any request
Init ==
    /\ vectorstore \in SeqsUpTo(Documents, MaxDocs)
    /\ rag_instance = "none"
    /\ dynamic_vocabulary = EmptyVocabulary
    /\ known_words = <<>>
    /\ phase = "idle"
    /\ resp = NoResponse
    /\ backlog = FALSE
    /\ snapshot = NoSnapshot
    /\ call = NoCall

Next ==
    \/ Chat
    \/ GetStructuredData
    \/ ClearEmbeddings
    \/ ProcessJiraData
    \/ RefreshCollect
    \/ RefreshComplete
    \/ RefreshFallback
    \/ Arrive
    \/ Respond

Spec == Init /\ [][Next]_vars

\* The loop runs a handler it has started to its return and sends the
\* response: a refresh that has begun is completed.  When a client sends the
\* next request is not the loop's to decide.
FairSpec ==
    /\ Spec
    /\ WF_vars(RefreshCollect)
    /\ WF_vars(RefreshComplete)
    /\ WF_vars(RefreshFallback)
    /\ WF_vars(Respond)

(***************************************************************************)
(* The methods of SimpleRAGChat called one at a time on an instance that   *)
(* has built its vocabulary from the collection.  A call is made on the    *)
(* fresh instance; _sanitize_query is then called once more on what it     *)
(* returned, and a request for structured data is sent a second time.      *)
(***************************************************************************)
\* The instance after SimpleRAGChat(): the collection holds at most MaxRecords
\* documents, no item twice, and at most one of them with an id that is no str
MethodInit ==
    /\ vectorstore \in
         {docs \in SeqsUpTo(Documents \cup {[d EXCEPT !.task_id = NotAString] : d \in Documents},
                            MaxRecords) :
             /\ \A i, j \in 1..Len(docs) : docs[i].content = docs[j].content => i = j
             /\ Cardinality({i \in 1..Len(docs) : docs[i].task_id = NotAString}) <= 1}
    /\ \E descending \in BOOLEAN :
       \E built \in {InitIntelligentCorrections(vectorstore, TRUE, descending)} :
          /\ dynamic_vocabulary = built.dynamic_vocabulary
          /\ known_words = built.known_words
          /\ snapshot = built
    /\ rag_instance = "ready"
    /\ phase = "idle"
    /\ resp = NoResponse
    /\ backlog = FALSE
    /\ call = NoCall

\* _sanitize_query(query), then _sanitize_query of what that returned
CallSanitizeQuery ==
    /\ call = NoCall \/ (call.method = "_sanitize_query" /\ call.calls = 1)
    /\ \E query \in (IF call = NoCall
                     THEN {"ip", "hp", "td", "dn", "progress", "high bugs", "show all tasks"}
                     ELSE {call.result}) :
         call' = [method |-> "_sanitize_query",
                  query |-> query,
                  result |-> SanitizeQuery(query, dynamic_vocabulary, known_words),
                  calls |-> IF call = NoCall THEN 1 ELSE 2]
    /\ UNCHANGED <<vectorstore, rag_instance, dynamic_vocabulary, known_words, phase, resp,
                   backlog, snapshot>>

\* _extract_search_criteria_fast(query) and _fallback_criteria_extraction(query)
CallExtractSearchCriteria ==
    /\ call = NoCall
    /\ \E query \in {"fixed bugs", "resolved bugs", "completed bugs",
                     "all priority tasks", "priority tasks", "high priority tasks",
                     "all priority bugs", "low and high tasks"} :
         call' = [method |-> "_extract_search_criteria",
                  query |-> query,
                  fast |-> ExtractSearchCriteriaFast(query, dynamic_vocabulary, known_words),
                  fallback |-> FallbackCriteriaExtraction(query, dynamic_vocabulary)]
    /\ UNCHANGED <<vectorstore, rag_instance, dynamic_vocabulary, known_words, phase, resp,
                   backlog, snapshot>>

\* _apply_intelligent_filtering, _apply_complex_criteria_filtering and
\* _criteria_group_matches, called on the records of the collection with
\* criteria as a model answers them or as _parse_complex_query_logic returns
\* them
CallApplyCriteriaFiltering ==
    /\ call = NoCall
    /\ \E criteria \in
            {reply @@ [logic_operators |-> <<>>, criteria_groups |-> <<>>] :
                reply \in {[NullObject EXCEPT !.kind = "none"],
                           [NullObject EXCEPT !.kind = "empty"],
                           NullObject, HighBugObject, StatusListObject, JsonArray,
                           Json("object", Str("ali"), List(<<"High", "low">>), Str("Done"), Null)}}
            \cup {ParseComplexQueryLogic(query, dynamic_vocabulary, known_words) :
                     query \in {"bug and done", "high or low", "done and bug and high"}},
          project_filter \in {NoFilter, "Alpha", "beta"} :
         call' = [method |-> "_apply_criteria_filtering",
                  criteria |-> criteria,
                  project |-> project_filter,
                  intelligent |-> ApplyIntelligentFiltering(vectorstore, criteria, project_filter),
                  complex |-> ApplyComplexCriteriaFiltering(vectorstore, criteria),
                  group_matches |-> [i \in 1..Len(vectorstore) |->
                                        CriteriaGroupMatches(vectorstore[i], criteria)]]
    /\ UNCHANGED <<vectorstore, rag_instance, dynamic_vocabulary, known_words, phase, resp,
                   backlog, snapshot>>

\* _parse_complex_query_logic, called on a query
CallParseComplexQueryLogic ==
    /\ call = NoCall
    /\ \E query \in {"bug and done", "high or low", "bug and alpha", "show all tasks",
                     "bug and done or story", "done and bug and high"} :
         call' = [method |-> "_parse_complex_query_logic",
                  query |-> query,
                  result |-> ParseComplexQueryLogic(query, dynamic_vocabulary, known_words)]
    /\ UNCHANGED <<vectorstore, rag_instance, dynamic_vocabulary, known_words, phase, resp,
                   backlog, snapshot>>

\* _should_use_llm(query), on queries of eight words and on shorter ones
CallShouldUseLlm ==
    /\ call = NoCall
    /\ \E query \in {"list all bug tasks in sprint-1 of alpha",
                     "list all bug and done tasks in alpha",
                     "list all story tasks in sprint-1 of alpha",
                     "list all the high bug tasks of alice",
                     "list all tasks", "why bugs"} :
         call' = [method |-> "_should_use_llm",
                  query |-> query,
                  result |-> ShouldUseLlm(query, dynamic_vocabulary)]
    /\ UNCHANGED <<vectorstore, rag_instance, dynamic_vocabulary, known_words, phase, resp,
                   backlog, snapshot>>

\* _init_intelligent_corrections() on a collection that returns the same
\* records in another order
CallInitIntelligentCorrections ==
    /\ call = NoCall
    /\ \E docs \in {p \in [1..Len(vectorstore) -> Range(vectorstore)] :
                       Range(p) = Range(vectorstore)},
          descending \in BOOLEAN :
         call' = [method |-> "_init_intelligent_corrections",
                  docs |-> docs,
                  result |-> InitIntelligentCorrections(docs, TRUE, descending)]
    /\ UNCHANGED <<vectorstore, rag_instance, dynamic_vocabulary, known_words, phase, resp,
                   backlog, snapshot>>

\* POST /data on the instance: the tasks, the statistics and the summaries by
\* project of the response, and those of the response before when the same
\* request is sent again.  The vector store answers; the model answers as it
\* likes each time.  _sanitize_query reads the message and the vocabulary
\* only, so that the second request has the corrected message of the first.
RequestStructuredData ==
    /\ call = NoCall \/ (call.method = "get_structured_data" /\ call.previous = <<>>)
    /\ \E message \in (IF call = NoCall THEN {"high priority bugs", "show all tasks"}
                       ELSE {call.message}) :
       \E corrected_message \in (IF call = NoCall
                                 THEN {SanitizeQuery(message, dynamic_vocabulary, known_words)}
                                 ELSE {call.query}) :
       \E sprint_filter \in (IF call = NoCall THEN {NoFilter, "Sprint-1"} ELSE {call.sprint}),
          project_filter \in (IF call = NoCall THEN {NoFilter, "Alpha"} ELSE {call.project}),
          llm \in {b \in LlmBehaviours : b.mode # "hang"} :
       \E tasks \in {DataTasks(AnyIn(TaskKeywords, Lower(corrected_message)),
                               corrected_message, sprint_filter, project_filter,
                               vectorstore, "ok", llm, dynamic_vocabulary).tasks} :
         LET Count(field, values, project) ==
                 Cardinality({i \in 1..Len(tasks) :
                                 /\ Lower(tasks[i][field]) \in values
                                 /\ project \in {"", tasks[i].project}})
             Summary(project) ==
                 [completed_tasks |-> Count("status", {"done"}, project),
                  in_progress_tasks |-> Count("status", {"in progress"}, project),
                  high_priority_tasks |-> Count("priority", {"high", "critical"}, project),
                  bugs |-> Count("issue_type", {"bug"}, project)]
         IN call' = [method |-> "get_structured_data",
                     message |-> message,
                     sprint |-> sprint_filter,
                     project |-> project_filter,
                     llm |-> llm,
                     query |-> corrected_message,
                     tasks |-> tasks,
                     statistics |-> Summary("") @@
                                    [total_tasks |-> Len(tasks)],
                     project_summaries |->
                         [p \in {tasks[i].project : i \in 1..Len(tasks)} |->
                             Summary(p) @@
                             [task_count |-> Cardinality({i \in 1..Len(tasks) :
                                                             tasks[i].project = p})]],
                     previous |-> IF call = NoCall THEN <<>>
                                  ELSE <<[tasks |-> call.tasks,
                                          statistics |-> call.statistics,
                                          project_summaries |-> call.project_summaries]>>]
    /\ UNCHANGED <<vectorstore, rag_instance, dynamic_vocabulary, known_words, phase, resp,
                   backlog, snapshot>>

MethodNext ==
    \/ CallSanitizeQuery
    \/ CallExtractSearchCriteria
    \/ CallParseComplexQueryLogic
    \/ CallApplyCriteriaFiltering
    \/ CallShouldUseLlm
    \/ CallInitIntelligentCorrections
    \/ RequestStructuredData

MethodSpec == MethodInit /\ [][MethodNext]_vars

(***************************************************************************)
(* The properties.                                                         *)
(***************************************************************************)
\* C1: with a project filter P, every task that extract_structured_tasks
\* returns belongs to project P (compared without case), whatever the corpus,
\* the query, the sprint filter and the output of the model, an output that
\* does not parse and a failed call included.
C1_TasksOfProjectOnly ==
    (resp.endpoint = "data" /\ resp.project # NoFilter)
        => \A i \in 1..Len(resp.tasks) : Lower(resp.tasks[i].project) = Lower(resp.project)

\* A /data response with a project filter that returns a task while the
\* collection holds a document of another project and the model gave an
\* answer that is no JSON
C1_Witness ==
    /\ phase = "responding"
    /\ resp.endpoint = "data"
    /\ resp.project # NoFilter
    /\ resp.llm = [mode |-> "ok", reply |-> InvalidJson]
    /\ resp.tasks # <<>>
    /\ \E i \in 1..Len(vectorstore) : Lower(vectorstore[i].project_id) # Lower(resp.project)

\* C2: with a project filter P, every record that process_query retrieves (the
\* records the fast path counts, the records the slow path hands to the model
\* and lists under "Retrieved Tasks") belongs to project P, on the fast path,
\* the sprint-filtered slow path and the semantic slow path.
C2_RetrievedOfProjectOnly ==
    (resp.endpoint \in {"chat", "data"} /\ resp.project # NoFilter)
        => \A i \in 1..Len(resp.retrieved) :
               Lower(resp.retrieved[i].project_id) = Lower(resp.project)

\* C3: when process_jira_data or clear_embeddings has completed, the
\* vocabulary and the known words are those a build from the collection as it
\* now is leaves (in one of the orders of the lists, get() answering or not).
C3_VocabularyOfCurrentCorpus ==
    (/\ phase = "responding"
     /\ resp.endpoint \in {"process-jira-data", "clear-embeddings"}
     /\ resp.success)
        => [dynamic_vocabulary |-> dynamic_vocabulary, known_words |-> known_words]
               \in {InitIntelligentCorrections(vectorstore, answers, descending) :
                        answers \in BOOLEAN, descending \in BOOLEAN}

\* C4: a query that arrives while the vocabulary is rebuilt reads the
\* vocabulary and the known words of one finished build: the pair it reads is
\* the pair the last build left, its seeded categories are filled and its
\* known words are those of that build.
C4_QueryReadsOneSnapshot ==
    (phase = "responding" /\ resp.endpoint \in {"chat", "data"})
        => /\ resp.read = snapshot
           /\ resp.read.known_words # <<>>
           /\ \A category \in {"priority", "status", "issue_type"} :
                  resp.read.dynamic_vocabulary[category] # <<>>

\* A query that arrived during a rebuild has been answered
C4_Witness ==
    /\ phase = "responding"
    /\ resp.endpoint \in {"chat", "data"}
    /\ resp.queued
    /\ resp.get_calls > 0

\* C5: when the answer of the model is no JSON, a JSON value that is no
\* object, or an object whose status, issue_type or assignee is a list,
\* extract_structured_tasks filters with the criteria of
\* _fallback_criteria_extraction for the same text and returns the tasks
\* these criteria select.
C5_MalformedOutputFallsBack ==
    (/\ phase = "responding"
     /\ resp.endpoint = "data"
     /\ resp.message_type = "task_list"
     /\ resp.store = "ok"
     /\ resp.llm.mode = "ok"
     /\ \/ resp.llm.reply.kind # "object"
        \/ \E field \in {"status", "issue_type", "assignee"} :
               resp.llm.reply[field].kind = "list")
        => /\ resp.criteria =
                  FallbackCriteriaExtraction(
                      BuildContextAwareQuery(resp.query, resp.sprint, resp.project),
                      dynamic_vocabulary)
           /\ resp.tasks =
                  ExtractStructuredTasks(resp.query, resp.sprint, resp.project, vectorstore,
                                         "ok", [mode |-> "raise", reply |-> InvalidJson],
                                         dynamic_vocabulary).tasks

\* C6: get_structured_data invokes the model only when _should_use_llm is
\* true for the normalized message.
C6_ModelOnlyForComplexQueries ==
    (resp.endpoint = "data" /\ resp.llm_calls > 0) => resp.needs_llm

\* C7: the records process_query selects are those the other path selects for
\* the same collection, vocabulary, query and filters: what the fast path
\* selected is what the slow path would have, and the reverse.
C7_PathsSelectTheSame ==
    (/\ phase = "responding"
     /\ resp.endpoint = "chat"
     /\ resp.store = "ok"
     /\ resp.llm.mode = "ok")
        => Range(resp.retrieved) =
               IF resp.path = "fast"
               THEN Range(SlowQuery(SlowPathStrategy(resp.sprint), resp.message, resp.sprint,
                                    vectorstore, "ok", resp.llm).retrieved)
               ELSE Range(FastSimpleQuery(resp.message, resp.sprint, resp.project, vectorstore,
                                          "ok", dynamic_vocabulary, known_words).retrieved)

\* C8: a call of get(), of a similarity search or of invoke that raises, the
\* calls SimpleRAGChat() makes on the first request included, leaves /chat and
\* /data with a response and no error status; the response has no task and
\* no record when the vector store failed.
C8_FailuresAreAnswered ==
    (phase = "responding" /\ resp.endpoint \in {"chat", "data"})
        => /\ resp.status = 200
           /\ resp.retrieval_failed => (resp.tasks = <<>> /\ resp.retrieved = <<>>)

\* The first request found the vector store raising, on a slow path
C8_Witness ==
    /\ phase = "responding"
    /\ resp.endpoint \in {"chat", "data"}
    /\ resp.store = "raise"
    /\ resp.retrieval_failed
    /\ resp.needs_llm
    /\ resp.get_calls > 2

\* C9: a query whose handler waits for a collaborator that never answers
\* still returns a response.
C9_BlockedQueryReturns ==
    (phase = "blocked" /\ resp.endpoint \in {"chat", "data"}) ~> (phase = "responding")

\* C10: a request with a sprint and a project filter makes no similarity
\* search: none on the paths of /chat and /data, and
\* _perform_intelligent_search hands it to the search that makes none.
C10_BothFiltersNoSimilaritySearch ==
    /\ (resp.endpoint \in {"chat", "data"} /\ resp.sprint # NoFilter /\ resp.project # NoFilter)
           => resp.similarity_calls = 0
    /\ \A sprint_filter \in SprintFilters \ {NoFilter},
          project_filter \in ProjectFilters \ {NoFilter} :
           SearchSimilarityCalls(PerformIntelligentSearch(sprint_filter, project_filter)) = 0

\* A request with both filters was answered on the slow path, from the
\* documents of the sprint
C10_Witness ==
    /\ phase = "responding"
    /\ resp.endpoint \in {"chat", "data"}
    /\ resp.sprint # NoFilter
    /\ resp.project # NoFilter
    /\ resp.path = "sprint"
    /\ resp.retrieved # <<>>

\* C11: for a fixed vocabulary _sanitize_query is idempotent: called on what
\* it returned, it returns the same text again, for inputs with abbreviations
\* that the normalizer expands ("ip", "hp") and for single words of a value
\* of several words ("progress") as well.
C11_SanitizeQueryIdempotent ==
    (call.method = "_sanitize_query" /\ call.calls = 2) => call.result = call.query

\* C12: after every build or refresh of the vocabulary, from an empty
\* collection, from records without some field and after a failed get()
\* included, each of the six categories of dynamic_vocabulary has a value.
C12_EveryCategoryHasValues ==
    snapshot # NoSnapshot =>
        \A i \in 1..Len(Categories) : snapshot.dynamic_vocabulary[Categories[i]] # <<>>

\* C13: with "bug" among the issue types and a status that stands for done,
\* the deterministic extractors return issue_type "bug" and that status for
\* "fixed bugs", "resolved bugs" and "completed bugs", and the same assignee,
\* priority and keywords for the three.
C13_FixedBugSynonymsExtractTheSame ==
    (/\ call.method = "_extract_search_criteria"
     /\ InList(call.query, FixedBugPhrases)
     /\ InList("bug", dynamic_vocabulary.issue_type)
     /\ \E i \in 1..Len(dynamic_vocabulary.status) :
            AnyIn(DoneSynonyms, dynamic_vocabulary.status[i]))
    => /\ \A criteria \in {call.fast, call.fallback} :
            /\ criteria.issue_type = Str("bug")
            /\ criteria.status.kind = "str"
            /\ AnyIn(DoneSynonyms, criteria.status.str)
       /\ \A i \in 1..Len(FixedBugPhrases) :
            /\ ExtractSearchCriteriaFast(FixedBugPhrases[i], dynamic_vocabulary, known_words)
                   = call.fast
            /\ FallbackCriteriaExtraction(FixedBugPhrases[i], dynamic_vocabulary)
                   = call.fallback

\* C14: for the queries "all priority tasks" and "priority tasks" and for
\* every vocabulary, _extract_search_criteria_fast and
\* _fallback_criteria_extraction return as priority the whole list of the
\* priority values of the vocabulary, never a single value.
C14_PriorityPhrasesNameEveryPriority ==
    (/\ call.method = "_extract_search_criteria"
     /\ call.query \in {"all priority tasks", "priority tasks"})
    => /\ call.fast.priority = List(dynamic_vocabulary.priority)
       /\ call.fallback.priority = List(dynamic_vocabulary.priority)

\* Both extractors have returned the list for "all priority tasks", on a
\* vocabulary with more than one priority
C14_Witness ==
    /\ call.method = "_extract_search_criteria"
    /\ call.query = "all priority tasks"
    /\ Len(dynamic_vocabulary.priority) > 1
    /\ call.fast.priority.kind = "list"
    /\ call.fallback.priority.items = dynamic_vocabulary.priority

\* C15: _should_use_llm returns false for every query of exactly eight words
\* that contains no analytical, comparative, temporal or quantitative keyword
\* (patterns 1 to 17 and 29 to 61 of complex_patterns), no natural-language
\* request phrase, and values of at most two categories of the taxonomy.
C15_EightPlainWordsSkipTheModel ==
    (/\ call.method = "_should_use_llm"
     /\ Len(Split(Lower(call.query))) = 8
     /\ ~AnyIn(SubSeq(ComplexPatterns, 1, 17) \o SubSeq(ComplexPatterns, 29, 61),
               Lower(call.query))
     /\ ~AnyIn(NaturalLanguageIndicators, Lower(call.query))
     /\ CriteriaCount(Lower(call.query), dynamic_vocabulary) <= 2)
    => ~call.result

\* C16: the same structured-data request processed twice in succession, with
\* no change of the corpus in between, gives the same number of tasks, the
\* same statistics and the same per-project summaries both times.
C16_RepeatedRequestSameAnswer ==
    (call.method = "get_structured_data" /\ call.previous # <<>>)
    => /\ Len(call.tasks) = Len(call.previous[1].tasks)
       /\ call.statistics = call.previous[1].statistics
       /\ call.project_summaries = call.previous[1].project_summaries

\* C17: on the corpus of T1, T2 and T3, the query "high priority bugs" with
\* the sprint filter Sprint-1 and the project filter Alpha returns exactly the
\* task T1.
C17_HighPriorityBugsOfSprintOneAlpha ==
    (/\ call.method = "get_structured_data"
     /\ Len(vectorstore) = 3 /\ Range(vectorstore) = Documents
     /\ call.message = "high priority bugs"
     /\ call.sprint = "Sprint-1" /\ call.project = "Alpha")
    => {call.tasks[i].id : i \in 1..Len(call.tasks)} = {"T1"}

\* C18: on the same corpus, the query "show all tasks" with the sprint filter
\* Sprint-1 and no project filter returns exactly the tasks T1 and T2.
C18_ShowAllTasksOfSprintOne ==
    (/\ call.method = "get_structured_data"
     /\ Len(vectorstore) = 3 /\ Range(vectorstore) = Documents
     /\ call.message = "show all tasks"
     /\ call.sprint = "Sprint-1" /\ call.project = NoFilter)
    => {call.tasks[i].id : i \in 1..Len(call.tasks)} = {"T1", "T2"}

\* C19: building the vocabulary from the same records in another order gives,
\* for each of the six categories, the same set of values, all lowercase.
C19_VocabularyIgnoresRecordOrder ==
    call.method = "_init_intelligent_corrections"
    => \A i \in 1..Len(Categories) :
          /\ Range(call.result.dynamic_vocabulary[Categories[i]])
               = Range(dynamic_vocabulary[Categories[i]])
          /\ \A value \in Range(call.result.dynamic_vocabulary[Categories[i]]) :
                value = Lower(value)

\* The vocabulary has been built again from the records of the collection in
\* another order, records that differ in every field
C19_Witness ==
    /\ call.method = "_init_intelligent_corrections"
    /\ Len(call.docs) = MaxRecords
    /\ call.docs # vectorstore
    /\ call.docs[1].priority # vectorstore[1].priority
    /\ Range(call.result.dynamic_vocabulary.sprints) = {"sprint-1", "sprint-2"}

\* C20: when exactly one record of the filtered set makes the construction of
\* its task object fail, extract_structured_tasks returns the task objects of
\* all the other records of the filtered set.
C20_OneMalformedRecordIsSkipped ==
    LET criteria == ExtractSearchCriteriaWithLlm(
                        BuildContextAwareQuery(call.query, call.sprint, call.project),
                        call.llm, dynamic_vocabulary)
        candidates == SelectSeq(vectorstore, LAMBDA d :
                          PassesContextFilters(d, call.sprint, call.project))
        filtered == SelectSeq(candidates, LAMBDA d :
                        CriteriaOutcome(criteria, d) = "include")
    IN (/\ call.method = "get_structured_data"
        /\ AnyIn(TaskKeywords, Lower(call.query))
        /\ \A i \in 1..Len(candidates) : CriteriaOutcome(criteria, candidates[i]) # "raise"
        /\ Cardinality({i \in 1..Len(filtered) : filtered[i].task_id = NotAString}) = 1)
       => {call.tasks[i].id : i \in 1..Len(call.tasks)}
            = {filtered[i].task_id : i \in 1..Len(filtered)} \ {NotAString}

\* C23: after every build of the vocabulary, the build from an empty
\* collection and the build-error fallback included, every value of every
\* category of dynamic_vocabulary is in known_words, and so are the fixed
\* connector and action words.
C23_VocabularyValuesAreKnownWords ==
    snapshot # NoSnapshot =>
        /\ \A i \in 1..Len(Categories) :
              \A value \in Range(snapshot.dynamic_vocabulary[Categories[i]]) :
                 InList(value, snapshot.known_words)
        /\ \A word \in Range(ConnectorWords) : InList(word, snapshot.known_words)

\* C24: for a query that names a priority level together with the phrase
\* "priority tasks" ("high priority tasks"), the deterministic extractors
\* return that single level as priority, not the list of all levels.
C24_NamedLevelWinsOverPhrase ==
    (/\ call.method = "_extract_search_criteria"
     /\ call.query = "high priority tasks"
     /\ InList("high", dynamic_vocabulary.priority))
    => /\ call.fast.priority = Str("high")
       /\ call.fallback.priority = Str("high")

\* C25: for a query with the connective " and " or " or " (one of the two),
\* _parse_complex_query_logic returns one criteria group per segment of the
\* split on that connective, with that one operator; for a query with no
\* connective it returns a single group, the flat criteria dict.
C25_OneGroupPerSegment ==
    LET query_lower == Strip(Lower(call.query))
        and == Contains(" and ", query_lower)
        or == Contains(" or ", query_lower)
    IN call.method = "_parse_complex_query_logic"
       => /\ (and /\ ~or)
              => /\ Len(call.result.criteria_groups) = Len(SplitOn(query_lower, " and ", ""))
                 /\ call.result.logic_operators = <<"AND">>
          /\ (or /\ ~and)
              => /\ Len(call.result.criteria_groups) = Len(SplitOn(query_lower, " or ", ""))
                 /\ call.result.logic_operators = <<"OR">>
          /\ (~and /\ ~or)
              => /\ call.result.criteria_groups = <<>>
                 /\ call.result.logic_operators = <<>>

\* C26: a query with both connectives " and " and " or " is rejected:
\* _parse_complex_query_logic returns no criteria for it and chooses neither
\* operator.
C26_MixedOperatorsAreRejected ==
    (/\ call.method = "_parse_complex_query_logic"
     /\ Contains(" and ", Lower(call.query))
     /\ Contains(" or ", Lower(call.query)))
    => /\ call.result.kind # "object"
       /\ call.result.logic_operators = <<>>

\* C28: for a fixed query, the criteria of _extract_search_criteria_fast do
\* not depend on the order in which the vocabulary stores its values: with
\* the vocabulary of the same records in either list order, priority, status,
\* issue_type and assignee are the same.
C28_CriteriaIgnoreVocabularyOrder ==
    call.method = "_extract_search_criteria"
    => \A descending \in BOOLEAN :
          \A other \in {InitIntelligentCorrections(vectorstore, TRUE, descending)} :
             \A criteria \in {ExtractSearchCriteriaFast(call.query, other.dynamic_vocabulary,
                                                        other.known_words)} :
                /\ criteria.priority.kind = call.fast.priority.kind
                /\ criteria.priority.str = call.fast.priority.str
                /\ Range(criteria.priority.items) = Range(call.fast.priority.items)
                /\ criteria.status = call.fast.status
                /\ criteria.issue_type = call.fast.issue_type
                /\ criteria.assignee = call.fast.assignee

\* C29: for every query and every vocabulary, _fallback_criteria_extraction
\* and _extract_search_criteria_fast return the same assignee, priority,
\* status and issue_type.
C29_ExtractorsAreInterchangeable ==
    call.method = "_extract_search_criteria"
    => /\ call.fallback.assignee = call.fast.assignee
       /\ call.fallback.priority = call.fast.priority
       /\ call.fallback.status = call.fast.status
       /\ call.fallback.issue_type = call.fast.issue_type

C21_ProjectFilterAlwaysReapplied ==
    (call.method = "_apply_criteria_filtering" /\ call.project # NoFilter)
    => /\ \A i \in 1..Len(call.intelligent) :
             Lower(call.intelligent[i].project_id) = Lower(call.project)
       /\ \A i \in 1..Len(call.complex) :
             Lower(call.complex[i].project_id) = Lower(call.project)

\* C22: the filter implementations compute one predicate for every record and
\* every criteria dict: a scalar criterion matches by case-insensitive
\* equality, a list for priority, status or issue_type by case-insensitive
\* membership, assignee by case-insensitive containment, and a null field
\* constrains nothing.  Compared here: _apply_intelligent_filtering,
\* _criteria_group_matches and the criteria loop of extract_structured_tasks.
C22_FiltersComputeOnePredicate ==
    LET Matches(criterion, value) ==
            \/ ~Truthy(criterion)
            \/ IF criterion.kind = "list"
               THEN \E k \in 1..Len(criterion.items) : Lower(value) = Lower(criterion.items[k])
               ELSE Lower(value) = Lower(criterion.str)
        Selected(d) ==
            /\ \/ ~Truthy(call.criteria.assignee)
               \/ /\ call.criteria.assignee.kind = "str"
                  /\ Contains(Lower(call.criteria.assignee.str), Lower(d.assignee))
            /\ Matches(call.criteria.priority, d.priority)
            /\ Matches(call.criteria.status, d.status)
            /\ Matches(call.criteria.issue_type, d.issue_type)
    IN (/\ call.method = "_apply_criteria_filtering"
        /\ call.criteria.kind = "object"
        /\ call.criteria.assignee.kind # "list"
        /\ call.project = NoFilter)
       => \A i \in 1..Len(vectorstore) :
             /\ Selected(vectorstore[i]) <=> InList(vectorstore[i], call.intelligent)
             /\ Selected(vectorstore[i]) <=> call.group_matches[i]
             /\ Selected(vectorstore[i])
                  <=> CriteriaOutcome(call.criteria, vectorstore[i]) = "include"

\* C27: with two or more groups, _apply_complex_criteria_filtering keeps a
\* record exactly when every group matches it under AND, and exactly when at
\* least one group matches it under OR, a group matching when all its non-null
\* fields match; the output is the candidates that are kept, in their order.
C27_GroupsCombineUnderTheOperator ==
    LET Equal(criterion, value) ==
            ~Truthy(criterion) \/ Lower(value) = Lower(criterion.str)
        GroupMatches(d, group) ==
            /\ \/ ~Truthy(group.assignee)
               \/ Contains(Lower(group.assignee.str), Lower(d.assignee))
            /\ Equal(group.priority, d.priority)
            /\ Equal(group.status, d.status)
            /\ Equal(group.issue_type, d.issue_type)
        groups == call.criteria.criteria_groups
    IN (call.method = "_apply_criteria_filtering" /\ Len(groups) >= 2)
       => /\ call.criteria.logic_operators = <<"AND">>
              => call.complex = SelectSeq(vectorstore, LAMBDA d :
                                    \A k \in 1..Len(groups) : GroupMatches(d, groups[k]))
          /\ call.criteria.logic_operators = <<"OR">>
              => call.complex = SelectSeq(vectorstore, LAMBDA d :
                                    \E k \in 1..Len(groups) : GroupMatches(d, groups[k]))

\* The two groups of "high or low" have been applied to records that each
\* match one group and not the other, and the records are kept
C27_Witness ==
    /\ call.method = "_apply_criteria_filtering"
    /\ Len(call.criteria.criteria_groups) = 2
    /\ call.criteria.logic_operators = <<"OR">>
    /\ Len(call.complex) >= 2
    /\ \A i \in 1..Len(vectorstore) :
          ~(/\ CriteriaGroupMatches(vectorstore[i], call.criteria.criteria_groups[1])
            /\ CriteriaGroupMatches(vectorstore[i], call.criteria.criteria_groups[2]))

====
